---- MODULE Spec2Model ----
(***************************************************************************)
(* The Script-API utilities package.                                       *)
(*                                                                         *)
(* Inventory snapshot / restore:                                           *)
(* saveInventory and loadInventory of src/utilities.js (the same code is   *)
(* InventoryUtils.saveInventory / loadInventory of src/unnamed/part_002).  *)
(*                                                                         *)
(* A player's loadout is the 5 equipment slots plus the inventorySize      *)
(* container slots.  saveInventory builds one descriptor (or null) per     *)
(* slot, JSON.stringify-es both arrays and writes them to two dynamic      *)
(* properties of the storage entity; loadInventory JSON.parse-s the two    *)
(* properties and rebuilds the items slot by slot.  JavaScript values,     *)
(* JSON text (as a token sequence), truthiness and exceptions are modelled *)
(* explicitly.  Specification: Spec.                                       *)
(*                                                                         *)
(* MemoryBuffer of src/unnamed/part_005, a buffer that drops its oldest    *)
(* items when more than maxSize are added.  Specification: SpecBuffer.     *)
(*                                                                         *)
(* DimensionUtils.spawnItem of src/utilities/dimension-utilities.js, which *)
(* validates its arguments and drops an item stack in a dimension.         *)
(* Specification: SpecSpawn.                                               *)
(*                                                                         *)
(* Block.prototype.getAdjacent of src/utilities/block-utilities.js, a      *)
(* breadth-first search of the blocks around a block, one step per         *)
(* iteration of its while loop.  Specification: SpecAdjacent.              *)
(*                                                                         *)
(* detectDoubleJumpEvent of src/utilities.js, which polls every player on  *)
(* every tick and calls back on the second jump in the air.                *)
(* Specification: SpecJump.                                                *)
(*                                                                         *)
(* BlockUtils.placeBlockAboveWater of src/utilities/block-utilities.js,    *)
(* which scans upward from a location and places a block on air above      *)
(* water.  Specification: SpecPlace.                                       *)
(*                                                                         *)
(* DimensionUtils.getBlock of src/utilities/dimension-utilities.js, which  *)
(* looks a block up and, when that fails, adds a ticking area and retries  *)
(* in a job.  Specification: SpecGetBlock.                                 *)
(*                                                                         *)
(* detectPlayerShootsEvent of src/utilities.js, which subscribes to the    *)
(* hits of every arrow and trident that spawns and calls back on the first *)
(* hit shot by a player.  Specification: SpecShoot.                        *)
(***************************************************************************)
EXTENDS Integers, Sequences, FiniteSets, TLC

\* the player, the property store and the record of the calls made
VARIABLES equippable, container, dynamicProperties, lastCall, saved, history
\* one MemoryBuffer: its two fields, the number of items ever added, the
\* items added and not taken back, in insertion order, and the last call
VARIABLES buffer, maxSize, added, inserted, lastBufferCall
\* the item entities of the dimension, in the order they were spawned, and
\* the last call of spawnItem
VARIABLES spawnedItems, lastSpawn
\* the blocks around the start block with the vector library in scope, and
\* the locals of the running call of getAdjacent
VARIABLES world, search
\* the two properties detectDoubleJumpEvent keeps on each player object,
\* the last polling tick (what the players did, whom the callback was
\* called for), and per player what has happened since the last ground
\* contact
VARIABLES jumpProps, jumpTick, jumpGhost
\* the blocks above one x/z position, the amount of the item stack in the
\* player's main hand (0: no item), and the last call of
\* placeBlockAboveWater
VARIABLES column, mainhand, lastPlace
\* whether the chunk of the location asked for is loaded, and the call of
\* DimensionUtils.getBlock with its retry job
VARIABLES chunkLoaded, job
\* detectPlayerShootsEvent: the entities spawned so far, the projectiles
\* whose projectileHitEntity subscription is registered, the whom argument,
\* the calls of the user callback in order, and the projectileHitEntity
\* events so far (their number and the last one)
VARIABLES spawned, hitSubscriptions, whom, callBacks, hits

inventoryVars == <<equippable, container, dynamicProperties, lastCall, saved, history>>
bufferVars == <<buffer, maxSize, added, inserted, lastBufferCall>>
spawnVars == <<spawnedItems, lastSpawn>>
searchVars == <<world, search>>
jumpVars == <<jumpProps, jumpTick, jumpGhost>>
placeVars == <<column, mainhand, lastPlace>>
getBlockVars == <<chunkLoaded, job>>
shootVars == <<spawned, hitSubscriptions, whom, callBacks, hits>>
vars == <<inventoryVars, bufferVars, spawnVars, searchVars, jumpVars, placeVars, getBlockVars, shootVars>>
\* what the operations of one part of the package leave alone
notInventory == <<bufferVars, spawnVars, searchVars, jumpVars, placeVars, getBlockVars, shootVars>>
notBuffer == <<inventoryVars, spawnVars, searchVars, jumpVars, placeVars, getBlockVars, shootVars>>
notSpawn == <<inventoryVars, bufferVars, searchVars, jumpVars, placeVars, getBlockVars, shootVars>>
notSearch == <<inventoryVars, bufferVars, spawnVars, jumpVars, placeVars, getBlockVars, shootVars>>
notJump == <<inventoryVars, bufferVars, spawnVars, searchVars, placeVars, getBlockVars, shootVars>>
notPlace == <<inventoryVars, bufferVars, spawnVars, searchVars, jumpVars, getBlockVars, shootVars>>
notGetBlock == <<inventoryVars, bufferVars, spawnVars, searchVars, jumpVars, placeVars, shootVars>>
notShoot == <<inventoryVars, bufferVars, spawnVars, searchVars, jumpVars, placeVars, getBlockVars>>

(***************************************************************************)
(* Bounds of the model.                                                    *)
(***************************************************************************)
\* capacity of the player's container (36 in the game)
inventorySize == 5
\* number of operations in one behaviour
MaxSteps == 3
\* largest maxSize a MemoryBuffer is constructed with
MaxBufferSize == 2
\* number of items added to a MemoryBuffer in one behaviour
MaxAdded == 4
\* number of calls of spawnItem in one behaviour
MaxSpawns == 2
\* largest maxSearch passed to getAdjacent
MaxSearch == 2

(***************************************************************************)
(* JavaScript values.                                                      *)
(***************************************************************************)
Undefined == [t |-> "undefined"]
Null == [t |-> "null"]
Bool(b) == [t |-> "bool", v |-> b]
Num(n) == [t |-> "num", v |-> n]
Str(s) == [t |-> "str", v |-> s]
Arr(elements) == [t |-> "arr", v |-> elements]
\* an object is its own properties in insertion order
Obj(members) == [t |-> "obj", v |-> members]
Prop(key, value) == [k |-> key, v |-> value]

\* ToBoolean: what `if (x)` and `!x` test
Truthy(x) ==
    CASE x.t = "undefined" -> FALSE
      [] x.t = "null" -> FALSE
      [] x.t = "bool" -> x.v
      [] x.t = "num" -> x.v # 0
      [] x.t = "str" -> x.v # ""
      [] OTHER -> TRUE

\* x.key on an object (undefined when absent; the last duplicate wins)
Get(x, key) ==
    IF x.t = "obj" /\ \E i \in 1..Len(x.v) : x.v[i].k = key
    THEN LET i == CHOOSE j \in 1..Len(x.v) :
                      /\ x.v[j].k = key
                      /\ \A m \in (j + 1)..Len(x.v) : x.v[m].k # key
         IN x.v[i].v
    ELSE Undefined

\* x.key throws a TypeError when x is null or undefined
CanRead(x) == x.t \notin {"undefined", "null"}

\* x[i] with a 0-based index
Index(x, i) ==
    IF x.t = "arr" /\ i < Len(x.v) THEN x.v[i + 1] ELSE Undefined

(***************************************************************************)
(* JSON text: a sequence of tokens.                                        *)
(***************************************************************************)
P(c) == [k |-> "punct", v |-> c]
Lit(w) == [k |-> "literal", v |-> w]
StrTok(s) == [k |-> "string", v |-> s]
NumTok(n) == [k |-> "number", v |-> n]

RECURSIVE JSONstringify(_)
RECURSIVE StringifyElements(_, _)
RECURSIVE StringifyMembers(_, _, _)

\* array elements: undefined is written as null
StringifyElements(s, i) ==
    IF i > Len(s) THEN <<>>
    ELSE (IF i > 1 THEN <<P(",")>> ELSE <<>>)
         \o (IF s[i].t = "undefined" THEN <<Lit("null")>> ELSE JSONstringify(s[i]))
         \o StringifyElements(s, i + 1)

\* object members: a property whose value is undefined is left out
StringifyMembers(s, i, first) ==
    IF i > Len(s) THEN <<>>
    ELSE IF s[i].v.t = "undefined" THEN StringifyMembers(s, i + 1, first)
    ELSE (IF first THEN <<>> ELSE <<P(",")>>)
         \o <<StrTok(s[i].k), P(":")>> \o JSONstringify(s[i].v)
         \o StringifyMembers(s, i + 1, FALSE)

JSONstringify(x) ==
    CASE x.t = "null" -> <<Lit("null")>>
      [] x.t = "bool" -> <<Lit(IF x.v THEN "true" ELSE "false")>>
      [] x.t = "num" -> <<NumTok(x.v)>>
      [] x.t = "str" -> <<StrTok(x.v)>>
      [] x.t = "arr" -> <<P("[")>> \o StringifyElements(x.v, 1) \o <<P("]")>>
      [] x.t = "obj" -> <<P("{")>> \o StringifyMembers(x.v, 1, TRUE) \o <<P("}")>>

SyntaxError == [ok |-> FALSE, val |-> Undefined, next |-> 0]
Parsed(x, n) == [ok |-> TRUE, val |-> x, next |-> n]

IsTok(toks, i, tok) == i <= Len(toks) /\ toks[i] = tok

RECURSIVE ParseValue(_, _)
RECURSIVE ParseElements(_, _, _)
RECURSIVE ParseMembers(_, _, _)

\* after `[` or `,`: a value, then `,` or `]`
ParseElements(toks, i, acc) ==
    LET e == ParseValue(toks, i) IN
    IF ~e.ok THEN SyntaxError
    ELSE IF IsTok(toks, e.next, P("]")) THEN Parsed(Arr(Append(acc, e.val)), e.next + 1)
    ELSE IF IsTok(toks, e.next, P(",")) THEN ParseElements(toks, e.next + 1, Append(acc, e.val))
    ELSE SyntaxError

\* after `{` or `,`: "key" : value, then `,` or `}`
ParseMembers(toks, i, acc) ==
    IF ~(i + 1 <= Len(toks) /\ toks[i].k = "string" /\ toks[i + 1] = P(":"))
    THEN SyntaxError
    ELSE LET e == ParseValue(toks, i + 2) IN
         IF ~e.ok THEN SyntaxError
         ELSE LET acc2 == Append(acc, Prop(toks[i].v, e.val)) IN
              IF IsTok(toks, e.next, P("}")) THEN Parsed(Obj(acc2), e.next + 1)
              ELSE IF IsTok(toks, e.next, P(",")) THEN ParseMembers(toks, e.next + 1, acc2)
              ELSE SyntaxError

ParseValue(toks, i) ==
    IF i > Len(toks) THEN SyntaxError
    ELSE LET tok == toks[i] IN
         CASE tok.k = "literal" ->
                  (CASE tok.v = "null" -> Parsed(Null, i + 1)
                     [] tok.v = "true" -> Parsed(Bool(TRUE), i + 1)
                     [] tok.v = "false" -> Parsed(Bool(FALSE), i + 1)
                     [] OTHER -> SyntaxError)
           [] tok.k = "number" -> Parsed(Num(tok.v), i + 1)
           [] tok.k = "string" -> Parsed(Str(tok.v), i + 1)
           [] tok = P("[") ->
                  IF IsTok(toks, i + 1, P("]")) THEN Parsed(Arr(<<>>), i + 2)
                  ELSE ParseElements(toks, i + 1, <<>>)
           [] tok = P("{") ->
                  IF IsTok(toks, i + 1, P("}")) THEN Parsed(Obj(<<>>), i + 2)
                  ELSE ParseMembers(toks, i + 1, <<>>)
           [] OTHER -> SyntaxError

\* JSON.parse: the whole text must be one value, else a SyntaxError is thrown
JSONparse(toks) ==
    LET r == ParseValue(toks, 1) IN
    IF r.ok /\ r.next = Len(toks) + 1 THEN r ELSE SyntaxError

(***************************************************************************)
(* The host: item types, item stacks, entities and their properties.       *)
(***************************************************************************)
listOfEquipmentSlots == <<"Head", "Chest", "Legs", "Feet", "Offhand">>
EquipmentSlots == {listOfEquipmentSlots[i] : i \in 1..Len(listOfEquipmentSlots)}
ContainerSlots == 0..(inventorySize - 1)

\* the registered item types and the components their stacks expose
ItemTypes ==
    [type \in {"minecraft:diamond_sword", "minecraft:iron_helmet", "minecraft:stick"} |->
        CASE type = "minecraft:diamond_sword" ->
                 [components |-> {"enchantable", "durability"}, maxAmount |-> 1]
          [] type = "minecraft:iron_helmet" ->
                 [components |-> {"enchantable", "durability"}, maxAmount |-> 1]
          [] type = "minecraft:stick" ->
                 [components |-> {}, maxAmount |-> 64]]

\* item.hasComponent(id); item.getComponent(id) is undefined without it
hasComponent(item, id) == id \in ItemTypes[item.typeId].components

\* new ItemStack(typeId) throws for a typeId that is no registered item type
Resolves(typeId) == typeId.t = "str" /\ typeId.v \in DOMAIN ItemTypes

NewItemStack(type) ==
    [t |-> "ItemStack", typeId |-> type, amount |-> 1, keepOnDeath |-> FALSE,
     lockMode |-> "none",
     nameTag |-> Undefined, lore |-> <<>>, enchantments |-> <<>>, damage |-> 0]

\* the stacks a player can hold in the model
Sword ==
    [t |-> "ItemStack", typeId |-> "minecraft:diamond_sword", amount |-> 1, keepOnDeath |-> TRUE,
     lockMode |-> "slot", nameTag |-> Str("Excalibur"), lore |-> <<"Forged in fire">>,
     enchantments |-> <<[type |-> "sharpness", level |-> 3],
                        [type |-> "unbreaking", level |-> 2]>>,
     damage |-> 7]
Helmet ==
    [t |-> "ItemStack", typeId |-> "minecraft:iron_helmet", amount |-> 1, keepOnDeath |-> FALSE,
     lockMode |-> "none", nameTag |-> Undefined, lore |-> <<>>,
     enchantments |-> <<>>, damage |-> 0]
Sticks ==
    [t |-> "ItemStack", typeId |-> "minecraft:stick", amount |-> 16, keepOnDeath |-> FALSE,
     lockMode |-> "inventory", nameTag |-> Undefined, lore |-> <<"Kindling", "Dry">>,
     enchantments |-> <<>>, damage |-> 0]
ItemStacks == {Sword, Helmet, Sticks}

\* the player whose loadout is saved and loaded, and a second entity
player == "Steve"
arenaController == "arenaController"
Entities == {player, arenaController}
Names == {player, "duel_backup"}

\* the template literals `armor:${invName}` and `inventory:${invName}`
Key(category, invName) == <<category, invName>>
PropertyKeys == {Key(c, n) : c \in {"armor", "inventory"}, n \in Names}

\* the text of a string-valued dynamic property
Text(toks) == [t |-> "text", v |-> toks]

\* x ?? "[]"
OrEmptyArray(x) == IF CanRead(x) THEN x.v ELSE <<P("["), P("]")>>

Loadout == [equippable |-> equippable, container |-> container]

(***************************************************************************)
(* saveInventory                                                           *)
(***************************************************************************)
EnchantmentData(e) == Obj(<<Prop("type", Str(e.type)), Prop("level", Num(e.level))>>)

\* getEnchantments().map(...) and the array getLore() returns
EnchantmentsData(s) == [i \in 1..Len(s) |-> EnchantmentData(s[i])]
LoreData(s) == [i \in 1..Len(s) |-> Str(s[i])]

\* a save that records no name
NameTagProp_Never(item) == <<>>
\* a save that gives every descriptor a nameTag property, undefined for a
\* stack without a name
NameTagProp_Always(item) == <<Prop("nameTag", item.nameTag)>>
NameTagProp(item) ==
    IF Truthy(item.nameTag) THEN <<Prop("nameTag", item.nameTag)>> ELSE <<>>

EnchantableProp(item) ==
    IF hasComponent(item, "enchantable")
    THEN <<Prop("enchantable", Arr(EnchantmentsData(item.enchantments)))>>
    ELSE <<>>

\* a save that records the damage only when it is not 0
DurabilityProp_IfDamaged(item) ==
    IF hasComponent(item, "durability") /\ item.damage # 0
    THEN <<Prop("durability", Num(item.damage))>>
    ELSE <<>>

DurabilityProp(item) ==
    IF hasComponent(item, "durability")
    THEN <<Prop("durability", Num(item.damage))>>
    ELSE <<>>

\* the descriptor `data` built for an occupied slot
ItemData(item) ==
    Obj(<<Prop("typeId", Str(item.typeId)),
          Prop("props", Obj(<<Prop("amount", Num(item.amount)),
                              Prop("keepOnDeath", Bool(item.keepOnDeath)),
                              Prop("lockMode", Str(item.lockMode))>>
                            \o NameTagProp(item))),
          Prop("lore", Arr(LoreData(item.lore))),
          Prop("components", Obj(EnchantableProp(item) \o DurabilityProp(item)))>>)

\* a save that records an empty slot as a zero-amount descriptor
SlotData_ZeroAmount(item) ==
    IF ~CanRead(item)
    THEN Obj(<<Prop("typeId", Str("minecraft:air")),
               Prop("props", Obj(<<Prop("amount", Num(0))>>)),
               Prop("lore", Arr(<<>>)),
               Prop("components", Obj(<<>>))>>)
    ELSE ItemData(item)

\* one element of a saved array: null for an empty slot
SlotData(item) == IF ~CanRead(item) THEN Null ELSE ItemData(item)

\* a loop that pushes nothing for an empty equipment slot
WornArmorOf_SkipEmpty(equip) ==
    Arr(SelectSeq([i \in 1..Len(listOfEquipmentSlots) |->
                      SlotData(equip[listOfEquipmentSlots[i]])],
                  LAMBDA d : d # Null))
\* the loop over listOfEquipmentSlots
WornArmorOf(equip) ==
    Arr([i \in 1..Len(listOfEquipmentSlots) |-> SlotData(equip[listOfEquipmentSlots[i]])])

\* the loop over the container, i = 0 .. inventorySize - 1
ItemsOf(cont) == Arr([i \in 1..inventorySize |-> SlotData(cont[i - 1])])

\* a write that keeps what the key already holds and adds the new text to it
setDynamicProperty_Merge(props, storage, key, text) ==
    [props EXCEPT ![storage][key] =
         IF CanRead(@) THEN Text(@.v \o text) ELSE Text(text)]
\* storage.setDynamicProperty(key, text), on the property store `props`
setDynamicProperty(props, storage, key, text) ==
    [props EXCEPT ![storage][key] = Text(text)]

\* a save that writes to the player whatever storage entity is given
SavedProperties_OnPlayer(props, invName, storage) ==
    setDynamicProperty(
        setDynamicProperty(props, player, Key("armor", invName),
                           JSONstringify(WornArmorOf(equippable))),
        player, Key("inventory", invName), JSONstringify(ItemsOf(container)))

\* a save under the player's own name whatever name is given
SavedProperties_UnderPlayerName(props, invName, storage) ==
    setDynamicProperty(
        setDynamicProperty(props, storage, Key("armor", player),
                           JSONstringify(WornArmorOf(equippable))),
        storage, Key("inventory", player), JSONstringify(ItemsOf(container)))
SavedProperties(props, invName, storage) ==
    setDynamicProperty(
        setDynamicProperty(props, storage, Key("armor", invName),
                           JSONstringify(WornArmorOf(equippable))),
        storage, Key("inventory", invName), JSONstringify(ItemsOf(container)))

\* the host calls of saveInventory that read a slot: getEquipment(slot) in
\* the first loop, container.getItem(i) in the second
GetEquipmentEvent(slot) == [e |-> "getEquipment", slot |-> slot]
GetItemEvent(i) == [e |-> "getItem", i |-> i]
SaveLog ==
    [i \in 1..Len(listOfEquipmentSlots) |-> GetEquipmentEvent(listOfEquipmentSlots[i])]
        \o [i \in 1..inventorySize |-> GetItemEvent(i - 1)]

\* a save that hands the carried stacks over to the snapshot
PlayerAfterSave_Taken(equip, cont) ==
    [equippable |-> equip, container |-> [i \in DOMAIN cont |-> Undefined]]
\* the player's slots after saveInventory: the function only reads them
PlayerAfterSave(equip, cont) == [equippable |-> equip, container |-> cont]

(***************************************************************************)
(* loadInventory                                                           *)
(***************************************************************************)
Thrown == [thrown |-> TRUE, item |-> Undefined]
Built(item) == [thrown |-> FALSE, item |-> item]

\* item[key] = value: the setters of an ItemStack (amount is clamped to the
\* type's maximum and rejects a value outside 1..255; an empty name tag
\* removes the name)
SetProperty(item, key, value) ==
    CASE key = "amount" ->
             IF value.t = "num" /\ value.v \in 1..255
             THEN Built([item EXCEPT !.amount =
                            IF value.v > ItemTypes[item.typeId].maxAmount
                            THEN ItemTypes[item.typeId].maxAmount ELSE value.v])
             ELSE Thrown
      [] key = "keepOnDeath" ->
             IF value.t = "bool" THEN Built([item EXCEPT !.keepOnDeath = value.v]) ELSE Thrown
      [] key = "lockMode" ->
             IF value.t = "str" THEN Built([item EXCEPT !.lockMode = value.v]) ELSE Thrown
      [] key = "nameTag" ->
             IF value.t = "str"
             THEN Built([item EXCEPT !.nameTag = IF value.v = "" THEN Undefined ELSE value])
             ELSE Thrown
      [] OTHER -> Built(item)

RECURSIVE AssignProps(_, _, _)
\* for (const key in data.props) item[key] = data.props[key];
AssignProps(item, members, i) ==
    IF i > Len(members) THEN Built(item)
    ELSE LET r == SetProperty(item, members[i].k, members[i].v) IN
         IF r.thrown THEN Thrown ELSE AssignProps(r.item, members, i + 1)

PropsOf(data) == LET props == Get(data, "props") IN IF props.t = "obj" THEN props.v ELSE <<>>

\* a restore that forgets the lore
setLore_Skipped(item, lore) == item

\* item.setLore(data.lore)
setLore(item, lore) ==
    [item EXCEPT !.lore = IF lore.t = "arr" THEN [i \in 1..Len(lore.v) |-> lore.v[i].v] ELSE <<>>]

\* e => ({...e, type: new EnchantmentType(e.type)})
ToEnchantment(e) == [type |-> Get(e, "type").v, level |-> Get(e, "level").v]

\* data.components.enchantable.map(...)
ToEnchantments(s) == [i \in 1..Len(s) |-> ToEnchantment(s[i])]

\* if (data.components.enchantable) item.getComponent("enchantable").addEnchantments(...)
ApplyEnchantable(item, enchantable) ==
    IF ~Truthy(enchantable) THEN Built(item)
    ELSE IF ~hasComponent(item, "enchantable") \/ enchantable.t # "arr" THEN Thrown
    ELSE Built([item EXCEPT !.enchantments = @ \o ToEnchantments(enchantable.v)])

\* if (data.components.durability) item.getComponent("durability").damage = ...
ApplyDurability(item, durability) ==
    IF ~Truthy(durability) THEN Built(item)
    ELSE IF ~hasComponent(item, "durability") \/ durability.t # "num" THEN Thrown
    ELSE Built([item EXCEPT !.damage = durability.v])

\* the else branch of a slot: the item rebuilt from the descriptor `data`,
\* or the exception thrown on the way
RebuildItem(data) ==
    IF ~Resolves(Get(data, "typeId")) THEN Thrown
    ELSE LET assigned == AssignProps(NewItemStack(Get(data, "typeId").v), PropsOf(data), 1) IN
         IF assigned.thrown THEN Thrown
         ELSE IF ~CanRead(Get(data, "components")) THEN Thrown
         ELSE LET enchanted ==
                      ApplyEnchantable(setLore(assigned.item, Get(data, "lore")),
                                       Get(Get(data, "components"), "enchantable")) IN
              IF enchanted.thrown THEN Thrown
              ELSE ApplyDurability(enchanted.item, Get(Get(data, "components"), "durability"))

\* the state of a running call: the player's slots, whether it has thrown,
\* and the calls it has made on the host so far, in order
Running(equip, cont) ==
    [equippable |-> equip, container |-> cont, thrown |-> FALSE, log |-> <<>>]
Throw(st) == [st EXCEPT !.thrown = TRUE]

\* the host calls of loadInventory: getDynamicProperty of one of the two
\* keys, container.setItem(i, ...), equipment.setEquipment(slot, ...)
ReadEvent(category) == [e |-> "getDynamicProperty", category |-> category]
SetItemEvent(i) == [e |-> "setItem", i |-> i]
SetEquipmentEvent(slot) == [e |-> "setEquipment", slot |-> slot]
Logged(st, event) == [st EXCEPT !.log = Append(@, event)]

\* a restore that adds the stack to the container (container.addItem: onto
\* a stack of the same kind with room for it, else into the first free
\* slot) instead of setting slot i
Stackable(held, item) ==
    /\ CanRead(held)
    /\ [held EXCEPT !.amount = item.amount] = item
    /\ held.amount + item.amount <= ItemTypes[item.typeId].maxAmount
setItem_AsAddItem(st, i, item) ==
    IF i \notin ContainerSlots THEN Throw(st)
    ELSE IF ~CanRead(item) THEN [st EXCEPT !.container[i] = item]
    ELSE IF \E j \in ContainerSlots : Stackable(st.container[j], item)
    THEN LET j == CHOOSE m \in ContainerSlots : Stackable(st.container[m], item)
         IN [st EXCEPT !.container[j].amount = @ + item.amount]
    ELSE IF \A j \in ContainerSlots : CanRead(st.container[j]) THEN st
    ELSE LET free == CHOOSE j \in ContainerSlots :
                         /\ ~CanRead(st.container[j])
                         /\ \A m \in 0..(j - 1) : CanRead(st.container[m])
         IN [st EXCEPT !.container[free] = item]

\* container.setItem(i, item) throws for a slot outside the container
setItem(st, i, item) ==
    IF i \in ContainerSlots
    THEN Logged([st EXCEPT !.container[i] = item], SetItemEvent(i))
    ELSE Throw(Logged(st, SetItemEvent(i)))

\* equipment.setEquipment(slot, item)
setEquipment(st, slot, item) ==
    Logged([st EXCEPT !.equippable[slot] = item], SetEquipmentEvent(slot))

\* the branch of the equipment loop for a falsy descriptor
ClearWorn(st, i) == setItem(st, i, Undefined)

RECURSIVE EquipmentLoop(_, _, _)
\* for (let i = 0; i < listOfEquipmentSlots.length; i++), from index i on
EquipmentLoop(wornArmor, i, st) ==
    IF i >= Len(listOfEquipmentSlots) \/ st.thrown THEN st
    ELSE IF ~CanRead(wornArmor) THEN Throw(st)
    ELSE IF ~Truthy(Index(wornArmor, i))
         THEN EquipmentLoop(wornArmor, i + 1, ClearWorn(st, i))
    ELSE LET r == RebuildItem(Index(wornArmor, i)) IN
         IF r.thrown THEN Throw(st)
         ELSE EquipmentLoop(wornArmor, i + 1,
                            setEquipment(st, listOfEquipmentSlots[i + 1], r.item))

RECURSIVE InventoryLoop_ToLength(_, _, _)
\* a loop over the elements of the stored array: for (i < items.length)
InventoryLoop_ToLength(items, i, st) ==
    IF ~CanRead(items) THEN Throw(st)
    ELSE IF i >= Len(items.v) \/ st.thrown THEN st
    ELSE IF ~Truthy(Index(items, i))
         THEN InventoryLoop_ToLength(items, i + 1, setItem(st, i, Undefined))
    ELSE LET r == RebuildItem(Index(items, i)) IN
         IF r.thrown THEN Throw(st)
         ELSE InventoryLoop_ToLength(items, i + 1, setItem(st, i, r.item))

RECURSIVE InventoryLoop(_, _, _)
\* for (let i = 0; i < inventorySize; i++), from index i on
InventoryLoop(items, i, st) ==
    IF i >= inventorySize \/ st.thrown THEN st
    ELSE IF ~CanRead(items) THEN Throw(st)
    ELSE IF ~Truthy(Index(items, i))
         THEN InventoryLoop(items, i + 1, setItem(st, i, Undefined))
    ELSE LET r == RebuildItem(Index(items, i)) IN
         IF r.thrown THEN Throw(st)
         ELSE InventoryLoop(items, i + 1, setItem(st, i, r.item))

\* the two reads at the head of loadInventory
StoredItems(props, invName, storage) ==
    JSONparse(OrEmptyArray(props[storage][Key("inventory", invName)]))
StoredWornArmor(props, invName, storage) ==
    JSONparse(OrEmptyArray(props[storage][Key("armor", invName)]))

\* a load that reads the inventory property only when its loop starts,
\* after the equipment slots have been written
LoadResult_LazyItems(st, props, invName, storage) ==
    LET items == StoredItems(props, invName, storage)
        wornArmor == StoredWornArmor(props, invName, storage)
        readArmor == Logged(st, ReadEvent("armor"))
    IN IF ~wornArmor.ok THEN Throw(readArmor)
       ELSE LET worn == EquipmentLoop(wornArmor.val, 0, readArmor) IN
            IF worn.thrown THEN worn
            ELSE IF ~items.ok THEN Throw(Logged(worn, ReadEvent("inventory")))
            ELSE InventoryLoop(items.val, 0, Logged(worn, ReadEvent("inventory")))
\* the whole call on a player holding `st`, reading the property store
\* `props`: both properties are read and parsed, the inventory one first,
\* then the equipment loop runs, then the inventory loop
LoadResult(st, props, invName, storage) ==
    LET items == StoredItems(props, invName, storage)
        wornArmor == StoredWornArmor(props, invName, storage)
        readItems == Logged(st, ReadEvent("inventory"))
        readBoth == Logged(readItems, ReadEvent("armor"))
    IN IF ~items.ok THEN Throw(readItems)
       ELSE IF ~wornArmor.ok THEN Throw(readBoth)
       ELSE InventoryLoop(items.val, 0, EquipmentLoop(wornArmor.val, 0, readBoth))

\* a load that consumes the snapshot it restores
PropertiesAfterLoad_Consumed(props, invName, storage) ==
    [props EXCEPT ![storage][Key("inventory", invName)] = Undefined,
                  ![storage][Key("armor", invName)] = Undefined]
\* the property store after loadInventory: the function only calls
\* getDynamicProperty, so every property of every entity is as it was
PropertiesAfterLoad(props, invName, storage) == props

(***************************************************************************)
(* Values other scripts may leave under a snapshot's keys.                 *)
(***************************************************************************)
\* a descriptor of a type that is no longer registered
RemovedTypeData ==
    Obj(<<Prop("typeId", Str("addon:removed_item")),
          Prop("props", Obj(<<Prop("amount", Num(2)), Prop("keepOnDeath", Bool(FALSE)),
                              Prop("lockMode", Str("none"))>>)),
          Prop("lore", Arr(<<>>)),
          Prop("components", Obj(<<>>))>>)
\* descriptors of sticks carrying a component that sticks do not expose
EnchantedSticksData ==
    Obj(<<Prop("typeId", Str("minecraft:stick")),
          Prop("props", Obj(<<Prop("amount", Num(4)), Prop("keepOnDeath", Bool(TRUE)),
                              Prop("lockMode", Str("none"))>>)),
          Prop("lore", Arr(<<>>)),
          Prop("components",
               Obj(<<Prop("enchantable", Arr(<<EnchantmentData([type |-> "sharpness", level |-> 1])>>))>>))>>)
DamagedSticksData ==
    Obj(<<Prop("typeId", Str("minecraft:stick")),
          Prop("props", Obj(<<Prop("amount", Num(4)), Prop("keepOnDeath", Bool(TRUE)),
                              Prop("lockMode", Str("none"))>>)),
          Prop("lore", Arr(<<>>)),
          Prop("components", Obj(<<Prop("durability", Num(3))>>))>>)

UnresolvableText ==
    JSONstringify(Arr(<<ItemData(Sticks), RemovedTypeData, ItemData(Helmet), Null, ItemData(Sword)>>))
NotEnchantableText ==
    JSONstringify(Arr(<<ItemData(Helmet), EnchantedSticksData, ItemData(Sticks)>>))
NotDurableText ==
    JSONstringify(Arr(<<Null, DamagedSticksData, ItemData(Sword)>>))
\* text that is no JSON, the JSON text `null`, and a JSON object
TruncatedText == <<P("["), P("{"), StrTok("typeId")>>
NullText == <<Lit("null")>>
ObjectText == JSONstringify(Obj(<<Prop("version", Num(2))>>))

(***************************************************************************)
(* The state machine.                                                      *)
(***************************************************************************)
\* the argument lists of a call: the defaults (invName = player.name,
\* storage = player) or an explicit name and storage entity
DefaultArgs == [invName |-> player, storage |-> player]
ExplicitArgs == [invName |-> "duel_backup", storage |-> arenaController]
Calls == {DefaultArgs, ExplicitArgs}
\* a second name on the player's own storage, which is saved under only
SharedArgs == [invName |-> "duel_backup", storage |-> player]
Snapshots == Calls \cup {SharedArgs}

NoItems == [slot \in EquipmentSlots |-> Undefined]
EmptyContainer == [i \in ContainerSlots |-> Undefined]

\* loadouts a player starts with
Bare == [equippable |-> NoItems, container |-> EmptyContainer]
Duelist ==
    [equippable |-> [NoItems EXCEPT !["Head"] = Helmet, !["Offhand"] = Sticks],
     container |-> [EmptyContainer EXCEPT ![0] = Sword, ![inventorySize - 1] = Sticks]]
Packed ==
    [equippable |-> [NoItems EXCEPT !["Chest"] = Sword, !["Feet"] = Helmet],
     container |-> [EmptyContainer EXCEPT ![1] = Sticks, ![2] = Helmet, ![3] = Sword]]
InitialLoadouts == {Bare, Duelist, Packed}

\* the armor half of a well-formed snapshot, as a save of the Packed
\* loadout writes it
PackedArmorText == JSONstringify(WornArmorOf(Packed.equippable))

\* well-formed inventory arrays of another capacity: fewer elements than
\* the container has slots, and one more
ShortItemsText == JSONstringify(Arr(<<ItemData(Sticks), Null, ItemData(Helmet)>>))
LongItemsText == JSONstringify(Arr(ItemsOf(Packed.container).v \o <<ItemData(Sword)>>))

\* the overwrites of the model: which text lands under which key
ForeignWrites ==
    {[category |-> "inventory", text |-> ShortItemsText],
     [category |-> "inventory", text |-> LongItemsText],
     [category |-> "armor", text |-> PackedArmorText],
     [category |-> "inventory", text |-> UnresolvableText],
     [category |-> "armor", text |-> NotEnchantableText],
     [category |-> "inventory", text |-> NotDurableText],
     [category |-> "inventory", text |-> TruncatedText],
     [category |-> "armor", text |-> NullText],
     [category |-> "inventory", text |-> ObjectText]}

\* the slots the player changes between calls
ChangedEquipment == {"Head"}
ChangedItems == {inventorySize - 1}
\* and what they put there: a slot is filled or emptied
WornChanges == {Helmet, Undefined}
CarriedChanges == {Sticks, Undefined}

NoCall ==
    [op |-> "none", invName |-> "", storage |-> "", thrown |-> FALSE,
     before |-> Bare, ret |-> Undefined, log |-> <<>>]

Step(op, invName, storage) == [op |-> op, invName |-> invName, storage |-> storage]

\* no MemoryBuffer is in use
NoBufferCall ==
    [op |-> "none", datas |-> <<>>, amount |-> Undefined, remove |-> FALSE,
     before |-> <<>>, ret |-> Undefined]
IdleBuffer ==
    /\ buffer = <<>>
    /\ maxSize = 1
    /\ added = 0
    /\ inserted = <<>>
    /\ lastBufferCall = NoBufferCall

\* nothing has been spawned
NoSpawn ==
    [op |-> "none", n |-> 0, dimension |-> Undefined, typeId |-> Undefined,
     location |-> Undefined, amount |-> Undefined, nameTag |-> Undefined,
     thrown |-> FALSE, errors |-> <<>>, before |-> <<>>]
IdleSpawn ==
    /\ spawnedItems = <<>>
    /\ lastSpawn = NoSpawn

\* no search is running
NoSearch ==
    [pc |-> "idle", maxSearch |-> 0, queue |-> <<>>, visited |-> {},
     connectedBlocks |-> <<>>]
IdleSearch ==
    /\ world = [matching |-> {}, library |-> "missing"]
    /\ search = NoSearch

\* detectDoubleJumpEvent was not called
IdleJump ==
    /\ jumpProps = <<>>
    /\ jumpTick = <<>>
    /\ jumpGhost = <<>>

\* no column of blocks is looked at and placeBlockAboveWater was not called
IdlePlace ==
    /\ column = <<>>
    /\ mainhand = 0
    /\ lastPlace = <<>>

\* DimensionUtils.getBlock was not called
NoJob ==
    [pc |-> "idle", trials |-> 0, block |-> Undefined, lookups |-> 0,
     added |-> 0, removed |-> 0, resolved |-> <<>>]
IdleGetBlock ==
    /\ chunkLoaded = FALSE
    /\ job = NoJob

\* detectPlayerShootsEvent was not called
NoHits == [count |-> 0, last |-> <<>>]
IdleShoot ==
    /\ spawned = {}
    /\ hitSubscriptions = {}
    /\ whom = Null
    /\ callBacks = <<>>
    /\ hits = NoHits

\* a player with nothing, nothing stored and no call made
IdleInventory ==
    /\ equippable = NoItems
    /\ container = EmptyContainer
    /\ dynamicProperties = [e \in Entities |-> [key \in PropertyKeys |-> Undefined]]
    /\ lastCall = NoCall
    /\ saved = [c \in Snapshots |-> [taken |-> FALSE, loadout |-> Bare]]
    /\ history = <<>>

Init ==
    /\ IdleBuffer
    /\ IdleSpawn
    /\ IdleSearch
    /\ IdleJump
    /\ IdlePlace
    /\ IdleGetBlock
    /\ IdleShoot
    /\ \E l \in InitialLoadouts :
          /\ equippable = l.equippable
          /\ container = l.container
    /\ dynamicProperties = [e \in Entities |-> [key \in PropertyKeys |-> Undefined]]
    /\ lastCall = NoCall
    /\ saved = [c \in Snapshots |-> [taken |-> FALSE, loadout |-> Bare]]
    /\ history = <<>>

\* saveInventory(player, invName, storage)
saveInventory(invName, storage) ==
    /\ Len(history) < MaxSteps
    /\ dynamicProperties' = SavedProperties(dynamicProperties, invName, storage)
    /\ lastCall' = [op |-> "save", invName |-> invName, storage |-> storage,
                    thrown |-> FALSE, before |-> Loadout,
                    ret |-> [items |-> ItemsOf(container),
                             wornArmor |-> WornArmorOf(equippable)],
                    log |-> SaveLog]
    /\ saved' = [saved EXCEPT ![[invName |-> invName, storage |-> storage]] =
                     [taken |-> TRUE, loadout |-> Loadout]]
    /\ history' = Append(history, Step("save", invName, storage))
    /\ equippable' = PlayerAfterSave(equippable, container).equippable
    /\ container' = PlayerAfterSave(equippable, container).container
    /\ UNCHANGED notInventory

\* loadInventory(player, invName, storage)
loadInventory(invName, storage) ==
    /\ Len(history) < MaxSteps
    /\ LET r == LoadResult(Running(equippable, container), dynamicProperties,
                           invName, storage) IN
          /\ equippable' = r.equippable
          /\ container' = r.container
          /\ lastCall' = [op |-> "load", invName |-> invName, storage |-> storage,
                          thrown |-> r.thrown, before |-> Loadout, ret |-> Undefined,
                          log |-> r.log]
    /\ dynamicProperties' = PropertiesAfterLoad(dynamicProperties, invName, storage)
    /\ history' = Append(history, Step("load", invName, storage))
    /\ UNCHANGED saved
    /\ UNCHANGED notInventory

\* between calls the player puts on or takes off a piece of equipment
PlayerEquips(slot, item) ==
    /\ Len(history) < MaxSteps
    /\ equippable[slot] # item
    /\ equippable' = [equippable EXCEPT ![slot] = item]
    /\ history' = Append(history, Step("change", "", ""))
    /\ UNCHANGED <<container, dynamicProperties, lastCall, saved>>
    /\ UNCHANGED notInventory

\* between calls the player picks up or drops the stack of a container slot
PlayerCarries(i, item) ==
    /\ Len(history) < MaxSteps
    /\ container[i] # item
    /\ container' = [container EXCEPT ![i] = item]
    /\ history' = Append(history, Step("change", "", ""))
    /\ UNCHANGED <<equippable, dynamicProperties, lastCall, saved>>
    /\ UNCHANGED notInventory

\* another script overwrites one key of the explicit snapshot
ForeignWrite(category, text) ==
    /\ Len(history) < MaxSteps
    /\ dynamicProperties' =
           setDynamicProperty(dynamicProperties, ExplicitArgs.storage,
                              Key(category, ExplicitArgs.invName), text)
    /\ saved' = [saved EXCEPT ![ExplicitArgs].taken = FALSE]
    /\ history' = Append(history, Step("write", ExplicitArgs.invName, ExplicitArgs.storage))
    /\ UNCHANGED <<equippable, container, lastCall>>
    /\ UNCHANGED notInventory

Next ==
    \/ \E c \in Snapshots : saveInventory(c.invName, c.storage)
    \/ \E c \in Calls : loadInventory(c.invName, c.storage)
    \/ \E slot \in ChangedEquipment, item \in WornChanges :
          PlayerEquips(slot, item)
    \/ \E i \in ChangedItems, item \in CarriedChanges :
          PlayerCarries(i, item)
    \/ \E w \in ForeignWrites : ForeignWrite(w.category, w.text)

Spec == Init /\ [][Next]_vars

(***************************************************************************)
(* Vocabulary of the properties.                                           *)
(***************************************************************************)
LastStep == history[Len(history)]
PrevStep == history[Len(history) - 1]
LastArgs == [invName |-> lastCall.invName, storage |-> lastCall.storage]
\* the last step was a call of `op`, and the one before it was `prev` with
\* the same arguments
JustAfter(prev, op) ==
    /\ Len(history) >= 2
    /\ lastCall.op = op
    /\ LastStep = Step(op, lastCall.invName, lastCall.storage)
    /\ PrevStep = Step(prev, lastCall.invName, lastCall.storage)

\* the slots of a loadout in the order of the two saved arrays
WornSlots(l) == [i \in 1..Len(listOfEquipmentSlots) |-> l.equippable[listOfEquipmentSlots[i]]]
CarriedSlots(l) == [i \in 1..inventorySize |-> l.container[i - 1]]

IsEmpty(slot) == slot = Undefined

\* two slots are observably equal
SameSlot(a, b) ==
    \/ IsEmpty(a) /\ IsEmpty(b)
    \/ /\ ~IsEmpty(a) /\ ~IsEmpty(b)
       /\ a.typeId = b.typeId
       /\ a.amount = b.amount
       /\ a.keepOnDeath = b.keepOnDeath
       /\ a.lockMode = b.lockMode
       /\ a.nameTag = b.nameTag
       /\ a.lore = b.lore
       /\ a.enchantments = b.enchantments
       /\ a.damage = b.damage

SameLoadout(a, b) ==
    /\ \A i \in 1..Len(listOfEquipmentSlots) : SameSlot(WornSlots(a)[i], WornSlots(b)[i])
    /\ \A i \in 1..inventorySize : SameSlot(CarriedSlots(a)[i], CarriedSlots(b)[i])

\* the last step was a call of saveInventory
AfterSave == lastCall.op = "save" /\ LastStep.op = "save"

\* what is stored under the two keys of a snapshot, decoded
Armor(c) == StoredWornArmor(dynamicProperties, c.invName, c.storage)
Inventory(c) == StoredItems(dynamicProperties, c.invName, c.storage)

(***************************************************************************)
(* C1  Round trip: a loadInventory that directly follows a saveInventory   *)
(* with the same arguments returns normally and leaves every equipment and *)
(* inventory slot observably equal (typeId, amount, keepOnDeath, lockMode, *)
(* nameTag, lore, enchantments, damage) to what it held at the save.       *)
(***************************************************************************)
C1_RoundTrip ==
    JustAfter("save", "load") =>
        /\ ~lastCall.thrown
        /\ SameLoadout(Loadout, saved[LastArgs].loadout)

\* the round trip of a loadout with empty slots, an enchanted, named, damaged
\* sword with lore, an undamaged helmet and plain sticks
C1_Witness ==
    /\ JustAfter("save", "load")
    /\ saved[LastArgs].loadout = Duelist
    /\ container[0] = Sword

(***************************************************************************)
(* C7  Idempotence of restore: a loadInventory that directly follows a     *)
(* loadInventory with the same arguments (the snapshot unchanged) leaves   *)
(* the loadout exactly as the first call left it, and ends the same way.   *)
(***************************************************************************)
C7_Idempotent ==
    JustAfter("load", "load") => Loadout = lastCall.before

\* a second restore after a first one that did change the loadout: the
\* player started as Duelist and the first restore emptied the container
C7_Witness ==
    /\ JustAfter("load", "load")
    /\ equippable = Duelist.equippable
    /\ container = EmptyContainer

(***************************************************************************)
(* C8  Named/foreign storage: when the default snapshot (on the player,    *)
(* under the player's name) and the explicit one ("duel_backup" on         *)
(* arenaController) were both taken of the same loadout, a loadInventory   *)
(* from either leaves the loadout that a loadInventory from the other      *)
(* would have left; and the explicit snapshot lives in arenaController's   *)
(* properties only (the player holds that name only once a snapshot under  *)
(* it was saved on the player), the default one in the player's only.      *)
(***************************************************************************)
OtherArgs(c) == IF c = DefaultArgs THEN ExplicitArgs ELSE DefaultArgs

\* C8: the explicit and the default snapshot of one loadout restore alike
C8_ForeignStorage ==
    /\ \A category \in {"armor", "inventory"} :
          /\ ~saved[SharedArgs].taken =>
                 dynamicProperties[player][Key(category, ExplicitArgs.invName)] = Undefined
          /\ dynamicProperties[arenaController][Key(category, DefaultArgs.invName)] = Undefined
    /\ ( /\ lastCall.op = "load"
         /\ LastStep.op = "load"
         /\ \A c \in Calls : saved[c].taken
         /\ saved[DefaultArgs].loadout = saved[ExplicitArgs].loadout )
       => LET other == LoadResult(Running(lastCall.before.equippable, lastCall.before.container),
                                  dynamicProperties, OtherArgs(LastArgs).invName,
                                  OtherArgs(LastArgs).storage)
          IN /\ other.equippable = equippable
             /\ other.container = container
             /\ other.thrown = lastCall.thrown

\* the packed loadout saved both ways and restored from arenaController
C8_Witness ==
    /\ lastCall.op = "load"
    /\ LastStep.op = "load"
    /\ LastArgs = ExplicitArgs
    /\ \A c \in Calls : saved[c].taken /\ saved[c].loadout = Packed
    /\ Loadout = Packed

(***************************************************************************)
(* C9  Null-slot fidelity at capture: in both arrays a saveInventory wrote *)
(* (and no other script has overwritten), element i is null exactly when   *)
(* slot i was empty at the save; every other element is a descriptor with  *)
(* the slot's typeId and its amount, which is at least 1.                  *)
(***************************************************************************)
FaithfulNulls(decoded, slots) ==
    /\ decoded.ok
    /\ decoded.val.t = "arr"
    /\ Len(decoded.val.v) = Len(slots)
    /\ \A i \in 1..Len(slots) :
          /\ decoded.val.v[i] = Null <=> IsEmpty(slots[i])
          /\ ~IsEmpty(slots[i]) =>
                /\ decoded.val.v[i].t = "obj"
                /\ Get(decoded.val.v[i], "typeId") = Str(slots[i].typeId)
                /\ Get(Get(decoded.val.v[i], "props"), "amount") = Num(slots[i].amount)
                /\ slots[i].amount >= 1

\* C9: a saved element is null exactly when its slot was empty at the save
C9_NullFidelity ==
    AfterSave =>
        /\ FaithfulNulls(Armor(LastArgs), WornSlots(lastCall.before))
        /\ FaithfulNulls(Inventory(LastArgs), CarriedSlots(lastCall.before))

\* a snapshot just taken of a loadout with empty and occupied slots of both kinds
C9_Witness ==
    /\ lastCall.op = "save"
    /\ LastStep.op = "save"
    /\ saved[LastArgs].taken
    /\ saved[LastArgs].loadout = Duelist

(***************************************************************************)
(* C10  Capability presence: in every descriptor a saveInventory wrote,    *)
(* components.enchantable is present exactly when the stack had the        *)
(* enchantable component and components.durability exactly when it had the *)
(* durability component, a damage of 0 included; and a stack restored from *)
(* a descriptor without a durability field has the damage of a new stack.  *)
(***************************************************************************)
Has(data, component) == Get(Get(data, "components"), component) # Undefined

FaithfulComponents(decoded, slots) ==
    /\ decoded.ok
    /\ \A i \in 1..Len(slots) :
          ~IsEmpty(slots[i]) =>
              /\ Has(Index(decoded.val, i - 1), "enchantable")
                     <=> hasComponent(slots[i], "enchantable")
              /\ Has(Index(decoded.val, i - 1), "durability")
                     <=> hasComponent(slots[i], "durability")
              /\ hasComponent(slots[i], "durability") =>
                     Get(Get(Index(decoded.val, i - 1), "components"), "durability")
                         = Num(slots[i].damage)

\* after a load that returned: the slots restored from a descriptor with no
\* durability field carry damage 0
NoDamageSet(decoded, slots) ==
    \A i \in 1..Len(slots) :
        (Truthy(Index(decoded.val, i - 1)) /\ ~Has(Index(decoded.val, i - 1), "durability"))
            => (~IsEmpty(slots[i]) /\ slots[i].damage = NewItemStack(slots[i].typeId).damage)

\* C10: a component is recorded exactly when the stack has it, and no
\* damage is set without a durability field
C10_CapabilityPresence ==
    /\ AfterSave =>
          /\ FaithfulComponents(Armor(LastArgs), WornSlots(lastCall.before))
          /\ FaithfulComponents(Inventory(LastArgs), CarriedSlots(lastCall.before))
    /\ (lastCall.op = "load" /\ LastStep.op = "load" /\ ~lastCall.thrown) =>
          /\ NoDamageSet(Armor(LastArgs), WornSlots(Loadout))
          /\ NoDamageSet(Inventory(LastArgs), CarriedSlots(Loadout))

\* a snapshot holding the undamaged helmet (durability 0 recorded), the
\* damaged sword and the sticks (no component recorded), restored
C10_Witness ==
    /\ JustAfter("save", "load")
    /\ saved[LastArgs].taken
    /\ saved[LastArgs].loadout = Duelist
    /\ equippable["Offhand"] = Sticks
    /\ equippable["Head"] = Helmet

(***************************************************************************)
(* What a restore is expected to leave in a slot.                          *)
(***************************************************************************)
AfterLoad == lastCall.op = "load" /\ LastStep.op = "load"

\* the text under a key is set and does not decode to an array
Malformed(x) == CanRead(x) /\ (~JSONparse(x.v).ok \/ JSONparse(x.v).val.t # "arr")
Unresolvable(d) == Truthy(d) /\ ~Resolves(Get(d, "typeId"))
MissingCapability(d) ==
    /\ Truthy(d)
    /\ Resolves(Get(d, "typeId"))
    /\ \E c \in {"enchantable", "durability"} :
          Has(d, c) /\ c \notin ItemTypes[Get(d, "typeId").v].components

\* the stack in a slot is the one the descriptor d describes
Describes(d, slot) ==
    /\ ~IsEmpty(slot)
    /\ Get(d, "typeId") = Str(slot.typeId)
    /\ Get(Get(d, "props"), "amount") = Num(slot.amount)
    /\ Get(Get(d, "props"), "keepOnDeath") = Bool(slot.keepOnDeath)
    /\ Get(Get(d, "props"), "lockMode") = Str(slot.lockMode)
    /\ Get(Get(d, "props"), "nameTag") = slot.nameTag
    /\ Get(d, "lore") = Arr(LoreData(slot.lore))
    /\ (Has(d, "enchantable") /\ hasComponent(slot, "enchantable")) =>
           Get(Get(d, "components"), "enchantable") = Arr(EnchantmentsData(slot.enchantments))
    /\ (Has(d, "durability") /\ hasComponent(slot, "durability")) =>
           Get(Get(d, "components"), "durability") = Num(slot.damage)

\* every slot is empty for a null (or unresolvable) descriptor and holds the
\* described stack otherwise
Reinstated(decoded, slots) ==
    \A i \in 1..Len(slots) :
        IF ~Truthy(Index(decoded.val, i - 1)) \/ Unresolvable(Index(decoded.val, i - 1))
        THEN IsEmpty(slots[i])
        ELSE Describes(Index(decoded.val, i - 1), slots[i])

Descriptors(c) ==
    {Index(Armor(c).val, i) : i \in 0..(Len(listOfEquipmentSlots) - 1)}
        \cup {Index(Inventory(c).val, i) : i \in ContainerSlots}

(***************************************************************************)
(* C2  loadInventory reinstates the snapshot whatever the player holds:    *)
(* after it returns, every equipment and inventory slot with a null        *)
(* descriptor is empty and every other slot holds the described stack.     *)
(***************************************************************************)
C2_ReinstatesSnapshot ==
    (AfterLoad /\ ~lastCall.thrown /\ saved[LastArgs].taken) =>
        /\ Reinstated(Armor(LastArgs), WornSlots(Loadout))
        /\ Reinstated(Inventory(LastArgs), CarriedSlots(Loadout))

(***************************************************************************)
(* C3  Missing snapshot: a loadInventory for a name and storage whose two  *)
(* keys were never written returns without throwing and leaves all 5       *)
(* equipment slots and all inventory slots empty.                          *)
(***************************************************************************)
NeverWritten(c) ==
    \A category \in {"armor", "inventory"} :
        dynamicProperties[c.storage][Key(category, c.invName)] = Undefined

\* C3: a restore of a snapshot never written empties every slot
C3_MissingSnapshot ==
    (AfterLoad /\ NeverWritten(LastArgs)) =>
        /\ ~lastCall.thrown
        /\ equippable = NoItems
        /\ container = EmptyContainer

(***************************************************************************)
(* C4  Partial corruption isolation: when the two stored arrays hold       *)
(* exactly one descriptor whose typeId resolves to no item type,           *)
(* loadInventory does not throw, leaves that slot empty and restores every *)
(* other slot from its own descriptor.                                     *)
(***************************************************************************)
C4_CorruptionIsolated ==
    ( /\ AfterLoad
      /\ ~Malformed(dynamicProperties[LastArgs.storage][Key("armor", LastArgs.invName)])
      /\ ~Malformed(dynamicProperties[LastArgs.storage][Key("inventory", LastArgs.invName)])
      /\ Cardinality({d \in Descriptors(LastArgs) : Unresolvable(d)}) = 1
      /\ \A d \in Descriptors(LastArgs) : ~MissingCapability(d) )
    => /\ ~lastCall.thrown
       /\ Reinstated(Armor(LastArgs), WornSlots(Loadout))
       /\ Reinstated(Inventory(LastArgs), CarriedSlots(Loadout))

(***************************************************************************)
(* C5  Malformed payload: when the text under one of the two keys does not *)
(* decode to an array, loadInventory does not throw and leaves what it     *)
(* would have left had that key never been written.                        *)
(***************************************************************************)
\* the property store with the malformed keys of snapshot c unset
WithoutMalformed(c) ==
    [dynamicProperties EXCEPT ![c.storage] =
        [key \in PropertyKeys |->
            IF key[2] = c.invName /\ Malformed(@[key]) THEN Undefined ELSE @[key]]]

\* C5: a malformed key is restored as a key never written
C5_MalformedAsMissing ==
    ( /\ AfterLoad
      /\ \E category \in {"armor", "inventory"} :
            Malformed(dynamicProperties[LastArgs.storage][Key(category, LastArgs.invName)]) )
    => /\ ~lastCall.thrown
       /\ LET asMissing ==
                  LoadResult(Running(lastCall.before.equippable, lastCall.before.container),
                             WithoutMalformed(LastArgs), LastArgs.invName, LastArgs.storage)
          IN equippable = asMissing.equippable /\ container = asMissing.container

(***************************************************************************)
(* C6  Missing capability at restore: when a descriptor carries an         *)
(* enchantable or durability component that the stack built from its       *)
(* typeId does not expose, loadInventory does not throw, skips that        *)
(* component and places the stack with its other attributes.               *)
(***************************************************************************)
C6_MissingCapabilitySkipped ==
    ( /\ AfterLoad
      /\ ~Malformed(dynamicProperties[LastArgs.storage][Key("armor", LastArgs.invName)])
      /\ ~Malformed(dynamicProperties[LastArgs.storage][Key("inventory", LastArgs.invName)])
      /\ \E d \in Descriptors(LastArgs) : MissingCapability(d)
      /\ \A d \in Descriptors(LastArgs) : ~Unresolvable(d) )
    => /\ ~lastCall.thrown
       /\ Reinstated(Inventory(LastArgs), CarriedSlots(Loadout))
       /\ \A i \in 1..Len(listOfEquipmentSlots) :
             Truthy(Index(Armor(LastArgs).val, i - 1)) =>
                 Describes(Index(Armor(LastArgs).val, i - 1), WornSlots(Loadout)[i])

(***************************************************************************)
(* C11  loadInventory never writes storage: a step that is a call of       *)
(* loadInventory, returning or throwing, leaves every dynamic property of  *)
(* every entity as it was, so the snapshot it read is still stored and a   *)
(* second load finds it.                                                   *)
(***************************************************************************)
C11_LoadKeepsStorage ==
    [][(Len(history') = Len(history) + 1 /\ history'[Len(history')].op = "load")
          => dynamicProperties' = dynamicProperties]_vars

\* a load of a snapshot that was taken, with both its properties still stored
C11_Witness ==
    /\ AfterLoad
    /\ saved[LastArgs].taken
    /\ saved[LastArgs].loadout = Duelist
    /\ dynamicProperties[LastArgs.storage][Key("inventory", LastArgs.invName)] # Undefined
    /\ dynamicProperties[LastArgs.storage][Key("armor", LastArgs.invName)] # Undefined

(***************************************************************************)
(* C12  Overwrite, not merge: while no other script has written to it, the *)
(* text stored under armor:<name> and under inventory:<name> is exactly    *)
(* the serialization of the loadout at the most recent saveInventory with  *)
(* that name and storage, however many saves with the same arguments came  *)
(* before it; nothing of an earlier snapshot is left in the text.          *)
(***************************************************************************)
C12_Overwrite ==
    \A c \in Calls :
        saved[c].taken =>
            /\ dynamicProperties[c.storage][Key("armor", c.invName)]
                   = Text(JSONstringify(WornArmorOf(saved[c].loadout.equippable)))
            /\ dynamicProperties[c.storage][Key("inventory", c.invName)]
                   = Text(JSONstringify(ItemsOf(saved[c].loadout.container)))

\* a second save under the same name after the player took off the helmet:
\* the first snapshot had a descriptor where the second has null
C12_Witness ==
    /\ Len(history) = 3
    /\ history[1].op = "save"
    /\ history[2].op = "change"
    /\ history[3] = history[1]
    /\ lastCall.op = "save"
    /\ lastCall.before.equippable["Head"] = Undefined
    /\ lastCall.before.container = Duelist.container
    /\ Index(Armor(LastArgs).val, 0) = Null

(***************************************************************************)
(* C13  Torn snapshot: when exactly one of armor:<name> and                *)
(* inventory:<name> is written (and what it holds is a well-formed         *)
(* sequence), loadInventory returns without throwing, restores the slots   *)
(* of the present half from its sequence and leaves every slot of the      *)
(* missing half empty.                                                     *)
(***************************************************************************)
WellFormed(decoded) ==
    /\ decoded.ok
    /\ decoded.val.t = "arr"
    /\ \A i \in 1..Len(decoded.val.v) :
           ~Unresolvable(decoded.val.v[i]) /\ ~MissingCapability(decoded.val.v[i])

Torn(c) ==
    (dynamicProperties[c.storage][Key("armor", c.invName)] = Undefined)
        # (dynamicProperties[c.storage][Key("inventory", c.invName)] = Undefined)

\* C13: a restore of a torn snapshot restores one half and empties the other
C13_TornSnapshot ==
    (AfterLoad /\ Torn(LastArgs)
        /\ WellFormed(Armor(LastArgs)) /\ WellFormed(Inventory(LastArgs)))
    => /\ ~lastCall.thrown
       /\ Reinstated(Armor(LastArgs), WornSlots(Loadout))
       /\ Reinstated(Inventory(LastArgs), CarriedSlots(Loadout))

(***************************************************************************)
(* C14  Sequence shape: right after a saveInventory with a name and a      *)
(* storage, the text under armor:<name> decodes to an array of             *)
(* exactly 5 elements, element i belonging to the i-th of Head, Chest,     *)
(* Legs, Feet, Offhand, and the text under inventory:<name> decodes to an  *)
(* array of exactly inventorySize elements, element i belonging to         *)
(* container slot i: a non-null element describes the stack that slot held *)
(* at the save and a null element stands for a slot that was empty.        *)
(***************************************************************************)
ElementOf(array, i, slot) ==
    IF Truthy(Index(array, i)) THEN Describes(Index(array, i), slot)
    ELSE IsEmpty(slot)

C14_SequenceShape ==
    AfterSave =>
        LET wornArmor == Armor(LastArgs)
            items == Inventory(LastArgs)
            held == saved[LastArgs].loadout
        IN  /\ wornArmor.ok /\ wornArmor.val.t = "arr"
            /\ Len(wornArmor.val.v) = 5
            /\ \A i \in 1..5 :
                   ElementOf(wornArmor.val, i - 1,
                             held.equippable[<<"Head", "Chest", "Legs", "Feet", "Offhand">>[i]])
            /\ items.ok /\ items.val.t = "arr"
            /\ Len(items.val.v) = inventorySize
            /\ \A i \in ContainerSlots : ElementOf(items.val, i, held.container[i])

\* a snapshot of a loadout with stacks on Chest and Feet only and in the
\* middle of the container only
C14_Witness ==
    /\ AfterSave
    /\ saved[LastArgs].taken
    /\ saved[LastArgs].loadout = Packed
    /\ Index(Armor(LastArgs).val, 0) = Null
    /\ Truthy(Index(Armor(LastArgs).val, 1))
    /\ Truthy(Index(Inventory(LastArgs).val, 3))

(***************************************************************************)
(* C15  saveInventory returns what it persisted: right after a call, the   *)
(* returned wornArmor and items are equal, element by element, to the      *)
(* arrays obtained by decoding the texts the call wrote under armor:<name> *)
(* and inventory:<name>.                                                   *)
(***************************************************************************)
C15_ReturnsPersisted ==
    AfterSave =>
        LET wornArmor == Armor(LastArgs)
            items == Inventory(LastArgs)
        IN /\ wornArmor.ok /\ items.ok
           /\ Len(lastCall.ret.wornArmor.v) = Len(wornArmor.val.v)
           /\ Len(lastCall.ret.items.v) = Len(items.val.v)
           /\ \A i \in 1..Len(lastCall.ret.wornArmor.v) :
                  lastCall.ret.wornArmor.v[i] = wornArmor.val.v[i]
           /\ \A i \in 1..Len(lastCall.ret.items.v) :
                  lastCall.ret.items.v[i] = items.val.v[i]

\* a save of a loadout with a named stack, unnamed stacks and empty slots
C15_Witness ==
    /\ AfterSave
    /\ lastCall.before = Duelist
    /\ lastCall.ret.items.v[1] = ItemData(Sword)
    /\ lastCall.ret.wornArmor.v[1] = ItemData(Helmet)
    /\ lastCall.ret.wornArmor.v[2] = Null

(***************************************************************************)
(* C20  Read before place: in every loadInventory call, both properties    *)
(* (inventory:<name> and armor:<name>) have been read and decoded before   *)
(* the first slot of the player, equipment or inventory, is set or         *)
(* cleared.                                                                *)
(***************************************************************************)
Places(event) == event.e \in {"setItem", "setEquipment"}

C20_ReadBeforePlace ==
    AfterLoad =>
        /\ \A k \in 1..Len(lastCall.log) :
               Places(lastCall.log[k]) =>
                   /\ \E a \in 1..(k - 1) : lastCall.log[a] = ReadEvent("inventory")
                   /\ \E b \in 1..(k - 1) : lastCall.log[b] = ReadEvent("armor")
        /\ (\E k \in 1..Len(lastCall.log) : Places(lastCall.log[k])) =>
               Inventory(LastArgs).ok /\ Armor(LastArgs).ok

\* a load that has set equipment slots and container slots
C20_Witness ==
    /\ AfterLoad
    /\ ~lastCall.thrown
    /\ \E k \in 1..Len(lastCall.log) : lastCall.log[k].e = "setEquipment"
    /\ \E k \in 1..Len(lastCall.log) : lastCall.log[k] = SetItemEvent(inventorySize - 1)

(***************************************************************************)
(* MemoryBuffer (src/unnamed/part_005).                                    *)
(***************************************************************************)
Min(a, b) == IF a <= b THEN a ELSE b
Max(a, b) == IF a >= b THEN a ELSE b

\* the default of get's amount
Infinity == [t |-> "infinity"]
\* Math.min(amount, length)
MathMin(amount, length) ==
    IF amount = Infinity THEN length ELSE Min(amount.v, length)

\* array.splice(0, deleteCount): the elements removed and the array left;
\* deleteCount is clamped to 0 .. length
splice(array, deleteCount) ==
    LET n == Min(Max(deleteCount, 0), Len(array))
    IN [removed |-> SubSeq(array, 1, n), array |-> SubSeq(array, n + 1, Len(array))]

\* array.slice(0, end): a negative end counts from the end of the array
slice(array, end) ==
    SubSeq(array, 1, IF end < 0 THEN Max(Len(array) + end, 0) ELSE Min(end, Len(array)))

\* an add that makes room by dropping the newest items
AfterAdd_DropNewest(array, size, datas) ==
    LET inTotal == Len(datas) + Len(array) IN
    IF inTotal > size
    THEN SubSeq(array, 1, Max(Len(array) - (inTotal - size), 0)) \o datas
    ELSE array \o datas
\* the buffer after add(datas)
AfterAdd(array, size, datas) ==
    LET inTotal == Len(datas) + Len(array) IN
    IF inTotal > size
    THEN splice(array, inTotal - size).array \o datas
    ELSE array \o datas

\* the arrays passed to add: the next items never added before
NewItems(n) == [i \in 1..n |-> added + i]
\* the amounts passed to get
Amounts == {Num(n) : n \in (0 - 1)..(MaxBufferSize + 1)} \cup {Infinity}

BufferCall(op, datas, amount, remove, ret) ==
    [op |-> op, datas |-> datas, amount |-> amount, remove |-> remove,
     before |-> buffer, ret |-> ret]

\* new MemoryBuffer(maxSize), for a maxSize the constructor accepts
InitBuffer ==
    /\ IdleInventory
    /\ IdleSpawn
    /\ IdleSearch
    /\ IdleJump
    /\ IdlePlace
    /\ IdleGetBlock
    /\ IdleShoot
    /\ buffer = <<>>
    /\ maxSize \in 1..MaxBufferSize
    /\ added = 0
    /\ inserted = <<>>
    /\ lastBufferCall = NoBufferCall

add(datas) ==
    /\ buffer' = AfterAdd(buffer, maxSize, datas)
    /\ added' = added + Len(datas)
    /\ inserted' = inserted \o datas
    /\ lastBufferCall' = BufferCall("add", datas, Undefined, FALSE, Undefined)
    /\ UNCHANGED maxSize
    /\ UNCHANGED notBuffer

get(amount, remove) ==
    LET n == MathMin(amount, Len(buffer)) IN
    /\ buffer' = IF remove THEN splice(buffer, n).array ELSE buffer
    /\ lastBufferCall' =
           BufferCall("get", <<>>, amount, remove,
                      IF remove THEN splice(buffer, n).removed ELSE slice(buffer, n))
    /\ UNCHANGED <<maxSize, added, inserted>>
    /\ UNCHANGED notBuffer

getFirst(remove) ==
    /\ buffer' = IF buffer # <<>> /\ remove THEN Tail(buffer) ELSE buffer
    /\ lastBufferCall' =
           BufferCall("getFirst", <<>>, Undefined, remove,
                      IF buffer = <<>> THEN Undefined ELSE Num(Head(buffer)))
    /\ UNCHANGED <<maxSize, added, inserted>>
    /\ UNCHANGED notBuffer

getLast(remove) ==
    /\ buffer' = IF buffer # <<>> /\ remove
                 THEN SubSeq(buffer, 1, Len(buffer) - 1) ELSE buffer
    /\ inserted' = IF buffer # <<>> /\ remove
                   THEN SubSeq(inserted, 1, Len(inserted) - 1) ELSE inserted
    /\ lastBufferCall' =
           BufferCall("getLast", <<>>, Undefined, remove,
                      IF buffer = <<>> THEN Undefined ELSE Num(buffer[Len(buffer)]))
    /\ UNCHANGED <<maxSize, added>>
    /\ UNCHANGED notBuffer

clear ==
    /\ buffer' = <<>>
    /\ inserted' = <<>>
    /\ lastBufferCall' = BufferCall("clear", <<>>, Undefined, FALSE, Undefined)
    /\ UNCHANGED <<maxSize, added>>
    /\ UNCHANGED notBuffer

NextBuffer ==
    \/ \E n \in 0..Min(MaxBufferSize + 1, MaxAdded - added) : add(NewItems(n))
    \/ \E amount \in Amounts, remove \in BOOLEAN : get(amount, remove)
    \/ \E remove \in BOOLEAN : getFirst(remove)
    \/ \E remove \in BOOLEAN : getLast(remove)
    \/ clear

SpecBuffer == InitBuffer /\ [][NextBuffer]_vars

(***************************************************************************)
(* C16  MemoryBuffer is fixed-size: after any sequence of add, get,        *)
(* getFirst, getLast and clear calls on a buffer constructed with          *)
(* maxSize > 0, the number of stored items never exceeds maxSize, an add   *)
(* of more than maxSize items at once included.                            *)
(***************************************************************************)
C16_FixedSize == Len(buffer) <= maxSize

(***************************************************************************)
(* C17  MemoryBuffer is FIFO: the buffer holds the most recently added     *)
(* items in insertion order; an add keeps all its items, in order, behind  *)
(* what is left of the buffer and drops only from its oldest end; get and  *)
(* getFirst return items from the oldest end in insertion order and, with  *)
(* remove = true, remove exactly the items they return.                    *)
(***************************************************************************)
IsPrefix(s, t) == Len(s) <= Len(t) /\ s = SubSeq(t, 1, Len(s))
IsSuffix(s, t) == Len(s) <= Len(t) /\ s = SubSeq(t, Len(t) - Len(s) + 1, Len(t))
Without(s, n) == SubSeq(s, n + 1, Len(s))

C17_FIFO ==
    LET call == lastBufferCall IN
    /\ IsSuffix(buffer, inserted)
    /\ call.op = "add" =>
           \E kept \in 0..Len(call.before) :
               /\ buffer = SubSeq(call.before, Len(call.before) - kept + 1,
                                  Len(call.before)) \o call.datas
               /\ kept = Len(call.before) \/ Len(buffer) >= maxSize
    /\ call.op = "get" =>
           /\ IsPrefix(call.ret, call.before)
           /\ (call.amount # Infinity /\ call.amount.v >= 0 /\ ~call.remove) =>
                  Len(call.ret) = Min(call.amount.v, Len(call.before))
           /\ (call.amount = Infinity) => call.ret = call.before
           /\ buffer = IF call.remove THEN Without(call.before, Len(call.ret))
                       ELSE call.before
    /\ call.op = "getFirst" =>
           /\ call.ret = IF call.before = <<>> THEN Undefined
                         ELSE Num(Head(call.before))
           /\ buffer = IF call.remove /\ call.before # <<>> THEN Tail(call.before)
                       ELSE call.before

\* a full buffer overflowed by an add, then read from its oldest end with
\* remove = true
C17_Witness ==
    /\ lastBufferCall.op = "get"
    /\ lastBufferCall.remove
    /\ lastBufferCall.amount = Num(1)
    /\ Len(lastBufferCall.before) = maxSize
    /\ Len(lastBufferCall.ret) = 1
    /\ lastBufferCall.ret[1] > 1
    /\ Len(inserted) > maxSize

(***************************************************************************)
(* DimensionUtils.spawnItem (src/utilities/dimension-utilities.js).        *)
(***************************************************************************)
\* a Dimension of the host, which has a spawnItem method
Overworld == [t |-> "Dimension", id |-> "minecraft:overworld"]
hasSpawnItem(dimension) == dimension.t = "Dimension"

\* Number.isInteger(x)
IsInteger(x) == x.t = "num"
\* typeof x === "object" (null, arrays and objects)
IsObject(x) == x.t \in {"null", "arr", "obj", "Dimension", "ItemStack"}

\* a location of a loaded chunk has the three coordinates;
\* dimension.spawnItem throws for any other location
Vector3(x, y, z) == Obj(<<Prop("x", Num(x)), Prop("y", Num(y)), Prop("z", Num(z))>>)
Spawnable(location) ==
    \A axis \in {"x", "y", "z"} : Get(location, axis).t = "num"

\* new ItemStack(typeId, amount), throwing for an unregistered type or an
\* amount outside 1..255
ItemStackOf(typeId, amount) ==
    IF Resolves(typeId) THEN SetProperty(NewItemStack(typeId.v), "amount", amount)
    ELSE Thrown

\* the outcome of a call: whether it threw to the caller, what it wrote
\* with console.error and the item entities it added to the dimension
Outcome(thrown, errors, items) == [thrown |-> thrown, errors |-> errors, items |-> items]

SpawnOutcome(dimension, typeId, location, amount, nameTag) ==
    IF ~Truthy(dimension) \/ ~hasSpawnItem(dimension)
    THEN Outcome(FALSE, <<"Invalid Dimension object">>, <<>>)
    ELSE IF ~Truthy(typeId) \/ typeId.t # "str"
    THEN Outcome(FALSE, <<"Invalid typeId">>, <<>>)
    ELSE IF ~IsInteger(amount) \/ amount.v <= 0
    THEN Outcome(FALSE, <<"Invalid amount">>, <<>>)
    ELSE IF ~Truthy(location) \/ ~IsObject(location)
    THEN Outcome(FALSE, <<"Invalid location">>, <<>>)
    ELSE LET made == ItemStackOf(typeId, amount) IN
         IF made.thrown THEN Outcome(TRUE, <<>>, <<>>)
         ELSE LET item == IF Truthy(nameTag)
                          THEN SetProperty(made.item, "nameTag", nameTag)
                          ELSE made IN
              IF item.thrown THEN Outcome(TRUE, <<>>, <<>>)
              ELSE IF ~Spawnable(location)
              THEN Outcome(FALSE, <<"Failed to spawn item">>, <<>>)
              ELSE Outcome(FALSE, <<>>, <<item.item>>)

\* the arguments of the calls of the model
Dimensions == {Overworld, Undefined, Obj(<<>>)}
TypeIds == {Str("minecraft:stick"), Str("minecraft:diamond_sword"), Str(""), Num(7),
            Str("addon:removed_item")}
SpawnAmounts == {Num(1), Num(16), Num(0), Num(0 - 1), Str("3"), Num(300)}
Locations == {Vector3(0, 64, 0), Null, Str("0 64 0"), Obj(<<>>)}
NameTags == {Null, Str("Loot")}

InitSpawn ==
    /\ IdleInventory
    /\ IdleBuffer
    /\ IdleSearch
    /\ IdleJump
    /\ IdlePlace
    /\ IdleGetBlock
    /\ IdleShoot
    /\ spawnedItems = <<>>
    /\ lastSpawn = NoSpawn

\* DimensionUtils.spawnItem(dimension, typeId, location, amount, nameTag)
spawnItem(dimension, typeId, location, amount, nameTag) ==
    /\ lastSpawn.n < MaxSpawns
    /\ LET r == SpawnOutcome(dimension, typeId, location, amount, nameTag) IN
          /\ spawnedItems' = spawnedItems \o r.items
          /\ lastSpawn' = [op |-> "spawnItem", n |-> lastSpawn.n + 1,
                           dimension |-> dimension, typeId |-> typeId,
                           location |-> location, amount |-> amount,
                           nameTag |-> nameTag, thrown |-> r.thrown,
                           errors |-> r.errors, before |-> spawnedItems]
    /\ UNCHANGED notSpawn

NextSpawn ==
    \E dimension \in Dimensions, typeId \in TypeIds, location \in Locations,
       amount \in SpawnAmounts, nameTag \in NameTags :
        spawnItem(dimension, typeId, location, amount, nameTag)

SpecSpawn == InitSpawn /\ [][NextSpawn]_vars

(***************************************************************************)
(* C18  spawnItem throws to the caller when the dimension is invalid, the  *)
(* typeId is not a non-empty string, the amount is not a positive integer  *)
(* or the location is not an object, and in each of these cases no item is *)
(* spawned.                                                                *)
(***************************************************************************)
InvalidArguments(call) ==
    \/ ~Truthy(call.dimension) \/ ~hasSpawnItem(call.dimension)
    \/ call.typeId.t # "str" \/ call.typeId.v = ""
    \/ call.amount.t # "num" \/ call.amount.v <= 0
    \/ call.location.t \notin {"obj", "arr"}

C18_ThrowsOnInvalid ==
    (lastSpawn.op = "spawnItem" /\ InvalidArguments(lastSpawn)) =>
        /\ lastSpawn.thrown
        /\ spawnedItems = lastSpawn.before

(***************************************************************************)
(* Block.prototype.getAdjacent (src/utilities/block-utilities.js).         *)
(*                                                                         *)
(* The file uses vec3 and Vec3 without importing or defining them.  With   *)
(* no such global the call ends in a ReferenceError at its first use       *)
(* (library "missing").  With a vector library in scope, visited.has       *)
(* compares objects: it finds a position again only if the library hands   *)
(* out one object per coordinate triple ("byValue"); if every add returns  *)
(* a new object it never does ("byIdentity").                              *)
(***************************************************************************)
Libraries == {"missing", "byValue", "byIdentity"}

\* the loaded blocks around the start block; getBlock is undefined elsewhere
Locations3 == {<<x, 64, z>> : x \in 0..1, z \in 0..1}
StartLocation == <<0, 64, 0>>

\* Vec3.directions: the six unit vectors
directions ==
    <<<<0, 1, 0>>, <<0, 0 - 1, 0>>, <<1, 0, 0>>, <<0 - 1, 0, 0>>, <<0, 0, 1>>, <<0, 0, 0 - 1>>>>
\* currentPosition.add(direction)
Plus(p, d) == <<p[1] + d[1], p[2] + d[2], p[3] + d[3]>>

\* visited.has(newPosition)
VisitedHas(visited, p) == world.library = "byValue" /\ p \in visited

\* adjacentBlock && filter(adjacentBlock)
Connected(p) == p \in Locations3 /\ p \in world.matching

\* the positions one run of the for loop pushes, in the order of the
\* directions
Pushed(currentPosition, visited) ==
    SelectSeq([i \in 1..Len(directions) |-> Plus(currentPosition, directions[i])],
              LAMBDA p : ~VisitedHas(visited, p) /\ Connected(p))

InitAdjacent ==
    /\ IdleInventory
    /\ IdleBuffer
    /\ IdleSpawn
    /\ IdleJump
    /\ IdlePlace
    /\ IdleGetBlock
    /\ IdleShoot
    /\ world \in [matching : SUBSET Locations3, library : Libraries]
    /\ search = NoSearch

\* block.getAdjacent(filter, maxSearch): the statements before the loop
getAdjacent(maxSearch) ==
    /\ search.pc = "idle"
    /\ search' = IF world.library = "missing"
                 THEN [NoSearch EXCEPT !.pc = "thrown", !.maxSearch = maxSearch]
                 ELSE [pc |-> "loop", maxSearch |-> maxSearch,
                       queue |-> <<StartLocation>>, visited |-> {},
                       connectedBlocks |-> <<>>]
    /\ UNCHANGED world
    /\ UNCHANGED notSearch

\* one iteration of the while loop
SearchIteration ==
    /\ search.pc = "loop"
    /\ Len(search.queue) > 0
    /\ Len(search.connectedBlocks) < search.maxSearch
    /\ LET currentPosition == Head(search.queue)
           visited == search.visited \cup {currentPosition}
           pushed == Pushed(currentPosition, visited)
       IN search' = [search EXCEPT !.queue = Tail(@) \o pushed,
                                   !.visited = visited,
                                   !.connectedBlocks = @ \o pushed]
    /\ UNCHANGED world
    /\ UNCHANGED notSearch

\* the loop condition fails: return connectedBlocks
SearchReturn ==
    /\ search.pc = "loop"
    /\ ~(Len(search.queue) > 0 /\ Len(search.connectedBlocks) < search.maxSearch)
    /\ search' = [search EXCEPT !.pc = "returned"]
    /\ UNCHANGED world
    /\ UNCHANGED notSearch

NextAdjacent ==
    \/ \E maxSearch \in 0..MaxSearch : getAdjacent(maxSearch)
    \/ SearchIteration
    \/ SearchReturn

SpecAdjacent == InitAdjacent /\ [][NextAdjacent]_vars

(***************************************************************************)
(* C19  getAdjacent respects maxSearch: for every start block, filter and  *)
(* maxSearch >= 0, the array it returns holds at most maxSearch blocks     *)
(* (and the loop ends: every call of the model reaches its return or       *)
(* throws before the loop).                                                *)
(***************************************************************************)
C19_RespectsMaxSearch ==
    search.pc = "returned" => Len(search.connectedBlocks) <= search.maxSearch

(***************************************************************************)
(* C21  Both procedures run to completion: for any player contents and any *)
(* stored values, a saveInventory call and a loadInventory call each       *)
(* return to the caller after visiting each of the 5 equipment slots and   *)
(* each of the inventorySize inventory slots exactly once.                 *)
(***************************************************************************)
VisitsWorn(event, slot) ==
    event.e \in {"getEquipment", "setEquipment"} /\ event.slot = slot
VisitsCarried(event, i) ==
    event.e \in {"getItem", "setItem"} /\ event.i = i
WornVisits(log, slot) == Cardinality({k \in 1..Len(log) : VisitsWorn(log[k], slot)})
CarriedVisits(log, i) == Cardinality({k \in 1..Len(log) : VisitsCarried(log[k], i)})

C21_RunsToCompletion ==
    (AfterSave \/ AfterLoad) =>
        /\ ~lastCall.thrown
        /\ \A slot \in EquipmentSlots : WornVisits(lastCall.log, slot) = 1
        /\ \A i \in ContainerSlots : CarriedVisits(lastCall.log, i) = 1

(***************************************************************************)
(* C22  nameTag is captured only when non-empty: a descriptor built by     *)
(* saveInventory has a props.nameTag field if and only if the stack had a  *)
(* non-empty nameTag, and then the field equals it; a stack restored by    *)
(* loadInventory from a descriptor without the field has no name, and one  *)
(* restored from a descriptor with the field has that name.                *)
(***************************************************************************)
HasKey(object, key) == \E i \in 1..Len(object.v) : object.v[i].k = key

\* the descriptor saveInventory built for a stack
NameCaptured(data, slot) ==
    ~IsEmpty(slot) =>
        /\ HasKey(Get(data, "props"), "nameTag") <=> Truthy(slot.nameTag)
        /\ Truthy(slot.nameTag) => Get(Get(data, "props"), "nameTag") = slot.nameTag

\* the stack loadInventory built from a descriptor
NameAssigned(data, slot) ==
    Truthy(data) =>
        /\ ~IsEmpty(slot)
        /\ slot.nameTag = IF HasKey(Get(data, "props"), "nameTag")
                          THEN Get(Get(data, "props"), "nameTag")
                          ELSE Undefined

C22_NameTagWhenNonEmpty ==
    /\ AfterSave =>
          /\ \A i \in 1..Len(listOfEquipmentSlots) :
                 NameCaptured(lastCall.ret.wornArmor.v[i], WornSlots(lastCall.before)[i])
          /\ \A i \in 1..inventorySize :
                 NameCaptured(lastCall.ret.items.v[i], CarriedSlots(lastCall.before)[i])
    /\ (AfterLoad /\ ~lastCall.thrown /\ saved[LastArgs].taken) =>
          LET wornArmor == Armor(LastArgs)
              items == Inventory(LastArgs)
          IN /\ \A i \in 1..Len(listOfEquipmentSlots) :
                    NameAssigned(Index(wornArmor.val, i - 1), WornSlots(Loadout)[i])
             /\ \A i \in 1..inventorySize :
                    NameAssigned(Index(items.val, i - 1), CarriedSlots(Loadout)[i])

\* a snapshot of the named sword next to unnamed stacks, restored onto a
\* player who held none of them
C22_Witness ==
    /\ AfterLoad
    /\ ~lastCall.thrown
    /\ saved[LastArgs].taken
    /\ saved[LastArgs].loadout = Duelist
    /\ lastCall.before # Duelist
    /\ container[0].nameTag = Str("Excalibur")
    /\ equippable["Head"].nameTag = Undefined

(***************************************************************************)
(* C26  saveInventory does not change the player: after every call each of *)
(* the 5 equipment slots and each inventory slot holds exactly what it     *)
(* held before the call, and the only dynamic properties that change are   *)
(* armor:<name> and inventory:<name> of the storage entity.                *)
(***************************************************************************)
SaveStep == Len(history') = Len(history) + 1 /\ history'[Len(history')].op = "save"

C26_SaveKeepsPlayer ==
    [][SaveStep =>
          /\ equippable' = equippable
          /\ container' = container
          /\ \A e \in Entities, key \in PropertyKeys :
                 dynamicProperties'[e][key] # dynamicProperties[e][key] =>
                     /\ e = lastCall'.storage
                     /\ key \in {Key("armor", lastCall'.invName),
                                  Key("inventory", lastCall'.invName)}]_vars

\* a save by a player with stacks in equipment and inventory slots
C26_Witness ==
    /\ AfterSave
    /\ lastCall.before = Packed
    /\ Loadout = Packed
    /\ dynamicProperties[LastArgs.storage][Key("inventory", LastArgs.invName)] # Undefined

(***************************************************************************)
(* C27  Named snapshots are independent: a saveInventory with name N on    *)
(* storage S changes only the keys armor:N and inventory:N of S; what is   *)
(* stored under any other name on S and under any name on any other        *)
(* entity is unchanged, so a loadInventory of another snapshot does after  *)
(* the save exactly what it would have done before it.                     *)
(***************************************************************************)
Restored(props, c) ==
    LoadResult(Running(equippable, container), props, c.invName, c.storage)

C27_IndependentSnapshots ==
    [][SaveStep =>
          LET args == [invName |-> lastCall'.invName, storage |-> lastCall'.storage] IN
          /\ \A e \in Entities, key \in PropertyKeys :
                 (e # args.storage \/ key[2] # args.invName) =>
                     dynamicProperties'[e][key] = dynamicProperties[e][key]
          /\ \A c \in Calls \ {args} :
                 Restored(dynamicProperties', c) = Restored(dynamicProperties, c)]_vars

\* two snapshots of different loadouts under two names on the player, and
\* one under the second name on another entity
C27_Witness ==
    /\ AfterSave
    /\ LastArgs = SharedArgs
    /\ saved[DefaultArgs].taken
    /\ saved[DefaultArgs].loadout # saved[SharedArgs].loadout
    /\ Inventory(DefaultArgs).val = ItemsOf(saved[DefaultArgs].loadout.container)
    /\ Inventory(SharedArgs).val = ItemsOf(saved[SharedArgs].loadout.container)

(***************************************************************************)
(* C28  Length mismatch at restore: when the stored inventory array has    *)
(* fewer elements than the container has slots, loadInventory clears every *)
(* slot at an index at or beyond the array's length; when it has more, the *)
(* elements at indices at or beyond inventorySize are ignored; in both     *)
(* cases slot i below both bounds is restored from element i and nothing   *)
(* is thrown (both stored arrays being well-formed).                       *)
(***************************************************************************)
C28_LengthMismatch ==
    AfterLoad =>
        LET wornArmor == Armor(LastArgs)
            items == Inventory(LastArgs)
        IN (WellFormed(wornArmor) /\ WellFormed(items)
                /\ Len(items.val.v) # inventorySize)
           => /\ ~lastCall.thrown
              /\ \A i \in ContainerSlots :
                     IF i < Len(items.val.v) /\ Truthy(items.val.v[i + 1])
                     THEN Describes(items.val.v[i + 1], container[i])
                     ELSE IsEmpty(container[i])

\* a restore from a 3-element array onto a player who carried a stack in
\* the last slot
C28_Witness ==
    /\ AfterLoad
    /\ ~lastCall.thrown
    /\ Len(Inventory(LastArgs).val.v) = 3
    /\ ~IsEmpty(lastCall.before.container[inventorySize - 1])
    /\ IsEmpty(container[inventorySize - 1])
    /\ container[0] = Sticks
    /\ container[2] = Helmet

(***************************************************************************)
(* C29  No partial state is left by a restore: wherever loadInventory      *)
(* stops, it is never the case that some slots have been replaced from the *)
(* snapshot while later slots still hold what they held before the call;   *)
(* a call that throws while rebuilding a slot leaves the player's slots as *)
(* they were before it.                                                    *)
(***************************************************************************)
C29_NoPartialState ==
    (AfterLoad /\ lastCall.thrown) => SameLoadout(Loadout, lastCall.before)

(***************************************************************************)
(* detectDoubleJumpEvent (src/utilities.js; the same code is               *)
(* CustomEvents.detectDoubleJumpEvent of src/unnamed/part_004).  One       *)
(* action is one run of the system.runInterval handler: every player is    *)
(* polled once, with whatever isOnGround and isJumping the game reports.   *)
(***************************************************************************)
\* world.getAllPlayers()
JumpPlayers == {"Steve", "Alex"}
\* largest number of jumps in the air between two ground contacts
MaxJumps == 3

\* if (player.jumpCount === 2), as a mutant: any jump after the first
IsDoubleJump_FromSecond(jumpCount) == jumpCount >= 2
\* if (player.jumpCount === 2)
IsDoubleJump(jumpCount) == jumpCount = 2

\* the body of the forEach for one player: the player's two properties
\* after it and whether callBack(player) was called
PolledPlayer(props, isOnGround, isJumping) ==
    LET initial == IF props.jumpCount = Undefined THEN 0 ELSE props.jumpCount.v
        lastJumping == IF props.lastJumping = Undefined THEN FALSE
                       ELSE props.lastJumping.v
        grounded == IF isOnGround THEN 0 ELSE initial
        jumped == isJumping /\ ~lastJumping /\ ~isOnGround
        jumpCount == IF jumped THEN grounded + 1 ELSE grounded
    IN  [props |-> [jumpCount |-> Num(jumpCount), lastJumping |-> Bool(isJumping)],
         called |-> jumped /\ IsDoubleJump(jumpCount)]

\* what the game reports about one player on one tick
PlayerInputs == [isOnGround : BOOLEAN, isJumping : BOOLEAN]

\* detectDoubleJumpEvent(callBack) has just registered the interval
InitJump ==
    /\ IdleInventory
    /\ IdleBuffer
    /\ IdleSpawn
    /\ IdleSearch
    /\ IdlePlace
    /\ IdleGetBlock
    /\ IdleShoot
    /\ jumpProps = [p \in JumpPlayers |-> [jumpCount |-> Undefined, lastJumping |-> Undefined]]
    /\ jumpTick = [polled |-> FALSE,
                   input |-> [p \in JumpPlayers |-> [isOnGround |-> TRUE, isJumping |-> FALSE]],
                   called |-> {}]
    /\ jumpGhost = [p \in JumpPlayers |-> [wasJumping |-> FALSE, jumps |-> 0, fired |-> 0]]

\* a tick on which isJumping is true, the player is off the ground and
\* isJumping was false on the tick before
StartsJump(input, wasJumping) ==
    input.isJumping /\ ~input.isOnGround /\ ~wasJumping

\* the handler of system.runInterval
PollingTick ==
    \E input \in [JumpPlayers -> PlayerInputs] :
        LET was == [p \in JumpPlayers |-> jumpTick.polled /\ jumpTick.input[p].isJumping]
            polled == [p \in JumpPlayers |->
                          PolledPlayer(jumpProps[p], input[p].isOnGround, input[p].isJumping)]
        IN  /\ \A p \in JumpPlayers :
                  StartsJump(input[p], was[p]) => jumpGhost[p].jumps < MaxJumps
            /\ jumpProps' = [p \in JumpPlayers |-> polled[p].props]
            /\ jumpTick' = [polled |-> TRUE, input |-> input,
                            called |-> {p \in JumpPlayers : polled[p].called}]
            /\ jumpGhost' = [p \in JumpPlayers |->
                  [wasJumping |-> was[p],
                   jumps |-> IF input[p].isOnGround THEN 0
                             ELSE IF StartsJump(input[p], was[p]) THEN jumpGhost[p].jumps + 1
                             ELSE jumpGhost[p].jumps,
                   fired |-> IF input[p].isOnGround THEN 0
                             ELSE IF polled[p].called THEN jumpGhost[p].fired + 1
                             ELSE jumpGhost[p].fired]]
            /\ UNCHANGED notJump

NextJump == PollingTick
SpecJump == InitJump /\ [][NextJump]_vars

(***************************************************************************)
(* C23: on every polling tick and for each player, the callback is called  *)
(* exactly when the tick is the second one since the player's last ground  *)
(* contact on which isJumping is true, the player is off the ground and    *)
(* isJumping was false on the tick before; it is called at most once       *)
(* between two ground contacts, and jumpCount is 0 after every tick on     *)
(* which the player is on the ground.                                      *)
(***************************************************************************)
C23_DoubleJump ==
    jumpTick.polled =>
        \A p \in JumpPlayers :
            /\ (p \in jumpTick.called) <=>
                   /\ StartsJump(jumpTick.input[p], jumpGhost[p].wasJumping)
                   /\ jumpGhost[p].jumps = 2
            /\ jumpGhost[p].fired <= 1
            /\ jumpTick.input[p].isOnGround => jumpProps[p].jumpCount = Num(0)
\* one player double-jumps while the other, already called back for, jumps
\* a third time in the air
C23_Witness ==
    /\ jumpTick.polled
    /\ \E p, q \in JumpPlayers :
          /\ p \in jumpTick.called
          /\ q \notin jumpTick.called
          /\ StartsJump(jumpTick.input[q], jumpGhost[q].wasJumping)
          /\ jumpGhost[q].jumps = 3
          /\ jumpGhost[q].fired = 1

(***************************************************************************)
(* BlockUtils.placeBlockAboveWater (src/utilities/block-utilities.js; the  *)
(* same code is placeBlockAboveWater of src/utilities.js).  One action is  *)
(* one call: the whole for loop.                                           *)
(***************************************************************************)
\* for (let i = 0; i < 8; i++)
MaxScan == 8
\* number of blocks at the bottom of the column that are not air
WaterHeight == 3
\* y of the highest block of the column and of the player
BuildLimit == 10
\* largest amount of the item stack in the main hand
MaxAmount == 3

Water == [typeId |-> "minecraft:water", isWaterlogged |-> FALSE]
Air == [typeId |-> "minecraft:air", isWaterlogged |-> FALSE]
Stone == [typeId |-> "minecraft:stone", isWaterlogged |-> FALSE]
WaterloggedSlab == [typeId |-> "minecraft:stone_slab", isWaterlogged |-> TRUE]
\* permutationToPlace, once set on a block
Waterlily == [typeId |-> "minecraft:waterlily", isWaterlogged |-> FALSE]
\* block.isAir
isAir(block) == block.typeId = "minecraft:air"
\* block.typeId === 'minecraft:water' || block.isWaterlogged
InWater(block) == block.typeId = "minecraft:water" \/ block.isWaterlogged

\* the columns looked at: any blocks at the bottom, air above them
Columns ==
    {[y \in 0..BuildLimit |-> IF y < WaterHeight THEN low[y] ELSE Air] :
        low \in [0..(WaterHeight - 1) -> {Water, Air, Stone, WaterloggedSlab}]}

\* the else branch after setPermutation: one item leaves the main hand,
\* and the loop goes on
Consume(st) ==
    IF st.mainhand <= 1
    THEN [st EXCEPT !.mainhand = 0, !.consumed = @ + 1]
    ELSE [st EXCEPT !.mainhand = @ - 1, !.consumed = @ + 1]

\* the for loop from iteration i on; st.y is location.y, st.placed the
\* positions setPermutation was called on, in order
RECURSIVE Scan(_, _, _)
Scan(i, playerY, st) ==
    IF i >= MaxScan \/ playerY < st.y THEN st
    ELSE LET block == st.column[st.y]
             next == [st EXCEPT !.y = @ + 1]
         IN  IF InWater(block) THEN Scan(i + 1, playerY, next)
             ELSE IF ~isAir(block) THEN next
             ELSE LET set == [next EXCEPT !.column[st.y] = Waterlily,
                                          !.placed = Append(@, st.y)]
                  IN  IF set.mainhand = 0 THEN set
                      ELSE Scan(i + 1, playerY, Consume(set))

InitPlace ==
    /\ IdleInventory
    /\ IdleBuffer
    /\ IdleSpawn
    /\ IdleSearch
    /\ IdleJump
    /\ IdleGetBlock
    /\ IdleShoot
    /\ column \in Columns
    /\ mainhand \in 0..MaxAmount
    /\ lastPlace = [called |-> FALSE, playerY |-> 0, start |-> 0, before |-> column,
                    placed |-> <<>>, consumed |-> 0]

\* placeBlockAboveWater(player, permutationToPlace, location)
placeBlockAboveWater ==
    \E playerY \in 0..BuildLimit, start \in 0..(WaterHeight - 1) :
        LET st == Scan(0, playerY, [y |-> start, column |-> column, mainhand |-> mainhand,
                                    placed |-> <<>>, consumed |-> 0])
        IN  /\ column' = st.column
            /\ mainhand' = st.mainhand
            /\ lastPlace' = [called |-> TRUE, playerY |-> playerY, start |-> start,
                             before |-> column, placed |-> st.placed,
                             consumed |-> st.consumed]
            /\ UNCHANGED notPlace

NextPlace == placeBlockAboveWater
SpecPlace == InitPlace /\ [][NextPlace]_vars

(***************************************************************************)
(* C25: a call of placeBlockAboveWater places at most one block: the first *)
(* air block above the water the scan started in, and exactly one item     *)
(* leaves the main hand for it; no further block is placed and no further  *)
(* item is consumed.                                                       *)
(***************************************************************************)
C25_OneBlock ==
    lastPlace.called =>
        /\ Len(lastPlace.placed) <= 1
        /\ lastPlace.consumed = Len(lastPlace.placed)
        /\ \A k \in 1..Len(lastPlace.placed) :
              /\ isAir(lastPlace.before[lastPlace.placed[k]])
              /\ \A y \in lastPlace.start..(lastPlace.placed[k] - 1) :
                    InWater(lastPlace.before[y])
\* what does hold of every call: the first block placed is the first air
\* block above the water the scan started in
FirstAirAboveWater ==
    (lastPlace.called /\ lastPlace.placed # <<>>) =>
        /\ isAir(lastPlace.before[lastPlace.placed[1]])
        /\ \A y \in lastPlace.start..(lastPlace.placed[1] - 1) :
              InWater(lastPlace.before[y])

(***************************************************************************)
(* DimensionUtils.getBlock (src/utilities/dimension-utilities.js; the same *)
(* code is in src/unnamed/part_010).  The call is one action; the job of   *)
(* system.runJob is one action per iteration of its do-while loop, one     *)
(* for its start and one for its resumption after the yield.  The chunk    *)
(* can finish loading only while no script runs: before the job starts and *)
(* while it is suspended at its yield.                                     *)
(***************************************************************************)
\* let trials = 1e3
Trials == 1000
\* number of lookups the job makes after trials has passed 0
MaxExtraLookups == 3

\* dim.getBlock(location): a block of a loaded chunk, undefined otherwise
TheBlock == [t |-> "Block", typeId |-> "minecraft:stone"]
Lookup == IF chunkLoaded THEN TheBlock ELSE Undefined

\* remove(); return resolve(block)
Resolved(j) ==
    [j EXCEPT !.pc = "done", !.removed = @ + 1, !.resolved = <<j.block>>]

\* while (!block)
Retrying(j) == j.block = Undefined

InitGetBlock ==
    /\ IdleInventory
    /\ IdleBuffer
    /\ IdleSpawn
    /\ IdleSearch
    /\ IdleJump
    /\ IdlePlace
    /\ IdleShoot
    /\ chunkLoaded \in BOOLEAN
    /\ job = NoJob

\* getBlock(location, dim) up to the promise it returns
getBlock ==
    /\ job.pc = "idle"
    /\ job' = IF Lookup # Undefined
              THEN [job EXCEPT !.pc = "done", !.block = Lookup, !.resolved = <<Lookup>>]
              ELSE [job EXCEPT !.pc = "scheduled", !.added = @ + 1]
    /\ UNCHANGED chunkLoaded
    /\ UNCHANGED notGetBlock

\* the first run of the generator: let trials = 1e3
JobStart ==
    /\ job.pc = "scheduled"
    /\ job' = [job EXCEPT !.pc = "running", !.trials = Trials]
    /\ UNCHANGED chunkLoaded
    /\ UNCHANGED notGetBlock

\* one iteration of do { ... } while (!block)
JobIteration ==
    /\ job.pc = "running"
    /\ job.lookups < Trials + MaxExtraLookups
    /\ LET looked == [job EXCEPT !.block = Lookup, !.lookups = @ + 1, !.trials = @ - 1]
       IN  job' = IF looked.trials = 0
                  THEN [looked EXCEPT !.pc = "yielded", !.removed = @ + 1]
                  ELSE IF Retrying(looked) THEN looked
                  ELSE Resolved(looked)
    /\ UNCHANGED chunkLoaded
    /\ UNCHANGED notGetBlock

\* the job is resumed after yield void remove(): the while condition
JobResume ==
    /\ job.pc = "yielded"
    /\ job' = IF Retrying(job) THEN [job EXCEPT !.pc = "running"] ELSE Resolved(job)
    /\ UNCHANGED chunkLoaded
    /\ UNCHANGED notGetBlock

\* the game finishes loading the chunk between two runs of the script
ChunkLoads ==
    /\ job.pc \in {"scheduled", "yielded"}
    /\ ~chunkLoaded
    /\ chunkLoaded' = TRUE
    /\ UNCHANGED job
    /\ UNCHANGED notGetBlock

NextGetBlock ==
    \/ getBlock
    \/ JobStart
    \/ JobIteration
    \/ JobResume
    \/ ChunkLoads
SpecGetBlock == InitGetBlock /\ [][NextGetBlock]_vars

(***************************************************************************)
(* C30: when the first lookup of getBlock fails, the retry job makes at    *)
(* most 1000 further lookups, the ticking area that was added is removed   *)
(* exactly once, and the promise resolves only with a non-empty block.     *)
(***************************************************************************)
C30_BoundedRetry ==
    job.added = 1 =>
        /\ job.lookups <= Trials
        /\ job.removed <= 1
        /\ job.pc = "done" => job.removed = 1
        /\ job.resolved # <<>> => job.resolved = <<TheBlock>>
\* what does hold of every call: the promise resolves only with a block,
\* and the ticking area has been removed by then
ResolvesWithBlock ==
    job.resolved # <<>> =>
        /\ job.resolved = <<TheBlock>>
        /\ job.added = 1 => job.removed >= 1

(***************************************************************************)
(* detectPlayerShootsEvent (src/utilities.js; the same code is             *)
(* CustomEvents.detectPlayerShootsEvent of src/unnamed/part_004).  One     *)
(* action is one event of the game delivered to every subscribed handler:  *)
(* entitySpawn to the handler of detectPlayerShootsEvent,                  *)
(* projectileHitEntity to the handlers registered per projectile.          *)
(***************************************************************************)
\* number of projectileHitEntity events in one behaviour
MaxHits == 3

Entity(id, typeId) == [id |-> id, typeId |-> typeId]
\* the entities that can spawn
Spawnables ==
    {Entity("arrow", "minecraft:arrow"), Entity("trident", "minecraft:trident"),
     Entity("snowball", "minecraft:snowball")}
Shooter == Entity("Steve", "minecraft:player")
Skeleton == Entity("skeleton", "minecraft:skeleton")
Zombie == Entity("zombie", "minecraft:zombie")
Cow == Entity("cow", "minecraft:cow")
\* source instanceof Player
IsPlayer(source) == source # Undefined /\ source.typeId = "minecraft:player"
\* the events projectileHitEntity can deliver: any spawned projectile, shot
\* by a player, by a mob or by nothing, hitting an entity or none
HitEvents ==
    [projectile : spawned, source : {Shooter, Skeleton, Undefined},
     entityHit : {Zombie, Cow, Undefined}]

\* the if of the projectileHitEntity handler registered for entity, down to
\* the call of callBack
Detects(entity, arg) ==
    /\ arg.entityHit # Undefined
    /\ IsPlayer(arg.source)
    /\ arg.projectile = entity
    /\ ~(whom # Null /\ arg.entityHit # whom)

\* world.afterEvents.projectileHitEntity.unsubscribe(callback), as a
\* mutant: the subscription stays
Unsubscribed_Never(subscriptions, entity) == subscriptions
\* world.afterEvents.projectileHitEntity.unsubscribe(callback)
Unsubscribed(subscriptions, entity) == subscriptions \ {entity}

\* detectPlayerShootsEvent(callBack, whom) has subscribed to entitySpawn
InitShoot ==
    /\ IdleInventory
    /\ IdleBuffer
    /\ IdleSpawn
    /\ IdleSearch
    /\ IdleJump
    /\ IdlePlace
    /\ IdleGetBlock
    /\ spawned = {}
    /\ hitSubscriptions = {}
    /\ whom \in {Null, Zombie}
    /\ callBacks = <<>>
    /\ hits = NoHits

\* the entitySpawn handler
entitySpawn ==
    \E entity \in Spawnables \ spawned :
        /\ spawned' = spawned \cup {entity}
        /\ hitSubscriptions' =
              IF entity.typeId # "minecraft:arrow" /\ entity.typeId # "minecraft:trident"
              THEN hitSubscriptions
              ELSE hitSubscriptions \cup {entity}
        /\ UNCHANGED <<whom, callBacks, hits>>
        /\ UNCHANGED notShoot

\* one projectileHitEntity event, delivered to every handler subscribed
\* when it is fired; at most the handler of arg.projectile detects it
projectileHitEntity ==
    /\ hits.count < MaxHits
    /\ \E arg \in HitEvents :
          LET detecting == {entity \in hitSubscriptions : Detects(entity, arg)}
          IN  /\ hits' = [count |-> hits.count + 1, last |-> <<arg>>]
              /\ IF detecting = {}
                 THEN UNCHANGED <<hitSubscriptions, callBacks>>
                 ELSE LET entity == CHOOSE e \in detecting : TRUE
                      IN  /\ callBacks' = Append(callBacks,
                                 [subscription |-> entity, hit |-> hits.count + 1,
                                  source |-> arg.source, hitProjectile |-> arg.projectile,
                                  player |-> arg.source, target |-> arg.entityHit,
                                  projectile |-> arg.projectile.typeId])
                          /\ hitSubscriptions' = Unsubscribed(hitSubscriptions, entity)
              /\ UNCHANGED <<spawned, whom>>
              /\ UNCHANGED notShoot

NextShoot ==
    \/ entitySpawn
    \/ projectileHitEntity
SpecShoot == InitShoot /\ [][NextShoot]_vars

(***************************************************************************)
(* C24: for every spawned arrow or trident the user callback is called at  *)
(* most once from that projectile's hit handler, only for a hit whose      *)
(* source is a player, whose projectile is that entity and, when whom is   *)
(* given, whose target is whom; and once the callback has been called the  *)
(* projectile's hit subscription is removed.                               *)
(***************************************************************************)
C24_OncePerProjectile ==
    \A entity \in spawned :
        LET calls == {k \in 1..Len(callBacks) : callBacks[k].subscription = entity}
        IN  /\ Cardinality(calls) <= 1
            /\ \A k \in calls :
                  /\ entity.typeId \in {"minecraft:arrow", "minecraft:trident"}
                  /\ IsPlayer(callBacks[k].source)
                  /\ callBacks[k].hitProjectile = entity
                  /\ whom # Null => callBacks[k].target = whom
                  /\ entity \notin hitSubscriptions
\* the arrow is called back for and hits again, as a player's shot at an
\* entity that whom allows, with no second call
C24_Witness ==
    /\ hits.count >= 2
    /\ \E k \in 1..Len(callBacks) :
          /\ callBacks[k].hit < hits.count
          /\ hits.last[1].projectile = callBacks[k].subscription
          /\ IsPlayer(hits.last[1].source)
          /\ hits.last[1].entityHit = callBacks[k].target

====
